---- MODULE Spec2Model ----
(***************************************************************************)
(* Model of the graph storage library: the block-structured Array, the     *)
(* Nodes and Edges stores with the adjacency matrix of edge addresses, and *)
(* the Graph with its Directed/Undirected variants under copy and move.    *)
(*                                                                         *)
(* Memory is a pool of blocks.  An address is a pair <<block, offset>>; a  *)
(* node or an edge record lives in a slot of a block, an edge holds the    *)
(* addresses of its source and target nodes and a matrix cell holds the    *)
(* address of an edge.                                                     *)
(***************************************************************************)
EXTENDS Integers, Sequences, FiniteSets, TLC

(* ----- bounds of the model ----- *)
\* Array(block_size): the block size the stores' arrays are built with.  The
\* default is DEFAULT_BLOCK_SIZE = 10 (Array.h:20); the model uses a smaller
\* one so that a store of MaxNodes elements spans several blocks.
BlockSize == 2
\* number of blocks the allocator can hand out to one array before
\* std::bad_alloc; every array draws its blocks from a region of its own
MaxBlocks == 2
\* node add / edge add are offered ids up to these values
MaxNodes == 3
MaxEdges == 2
\* an operation may be told that its k-th allocation fails, k <= MaxFailAt
MaxFailAt == 3
MaxFaults == 1

(* ----- program constants ----- *)
\* size_t arithmetic is modulo SizeMod; the model uses 30 bits instead of 64
\* (TLC integers are 32 bit wide)
SizeMod == 2^30
\* SIZE_MAX, the value the destructors store into id_
SIZE_MAX == SizeMod - 1

Graphs == {1, 2}
\* the regions: one per store of each graph, and one for an array used on
\* its own and one for the array it is moved to
Arenas == 1..6
BlockIds == 1..(6 * MaxBlocks)
Region(arena) == ((arena - 1) * MaxBlocks + 1)..(arena * MaxBlocks)
NData == {"a"}
EData == {"x"}
\* a value-initialised payload (NData() / EData())
NoData == ""
\* what is read of a payload that lies in released memory
Garbage == "?"
\* nullptr
NULL == <<0, 0>>

VARIABLES
    heap,         \* BlockIds -> block: the blocks owned by the arrays
    graphs,       \* Graphs -> [alive, nodes, edges, matrix]
    undirected,   \* is_undirected() of the variant both graphs are built as
    crashed,      \* the program ran into undefined behaviour and stopped
    faults,       \* the number of allocation failures so far
    seen,         \* addresses returned by add, per graph and store
    array,        \* an Array<Node<NData>> used on its own
    contents,     \* the items its caller appended and did not remove
    second,       \* a second Array<Node<NData>>, which array is moved to
    graph_        \* Graphs -> the graph_ of the graph's Nodes and of its Edges

vars == <<heap, graphs, undirected, crashed, faults, seen, array, contents,
          second, graph_>>

Min(S) == CHOOSE x \in S : \A y \in S : x <= y

(***************************************************************************)
(* Node and Edge records                                                   *)
(***************************************************************************)
\* Node(id, data)
Node(id, data) == [id |-> id, data |-> data]

\* Edge(id, source, target, data)
Edge(id, source, target, data) ==
    [id |-> id, source |-> source, target |-> target, data |-> data]

\* the element make_unique<element[]>(n) value-initialises a slot with
DefaultElement(kind) ==
    IF kind = "node" THEN Node(0, NoData) ELSE Edge(0, NULL, NULL, NoData)

\* ~Node() / ~Edge(): the stores into the dying object, which the compiler
\* may keep (-O0) or drop as dead stores (-O2): stores tells which
Destructor(kind, e, stores) ==
    IF ~stores THEN e
    ELSE IF kind = "node" THEN [e EXCEPT !.id = SIZE_MAX]
    ELSE [e EXCEPT !.id = SIZE_MAX, !.source = NULL, !.target = NULL]

\* Edge::update_node_pointers
update_node_pointers(e, source, target) ==
    [e EXCEPT !.source = source, !.target = target]

(***************************************************************************)
(* Array                                                                   *)
(***************************************************************************)
\* A block is [kind, slots, dead, used, twice].  dead is the set of offsets
\* whose element had its destructor called (pop_back, operator=): the
\* element's lifetime is over, while the slot stays part of the block.  used
\* and twice record what the operation in progress did with such elements:
\* the offsets it assigned to, and whether it destroyed one a second time.
FreeBlock == [kind |-> "free", slots |-> <<>>, dead |-> {}, used |-> {},
              twice |-> FALSE]

\* Array<element>(block_size): kind is the element type, arena the region of
\* memory the allocator serves this array from
Array(kind, arena, block_size) ==
    [kind |-> kind, arena |-> arena, data |-> <<>>, block_size |-> block_size,
     element_count |-> 0]

\* the blocks the allocator can still hand out to array a
FreeBlocks(h, a) == {b \in Region(a.arena) : h[b].kind = "free"}

\* std::make_unique throws std::bad_alloc: the pool is exhausted, or this is
\* the allocation the caller was told fails (n allocations were tried before)
BadAlloc(h, a, n, failAt) == FreeBlocks(h, a) = {} \/ n + 1 = failAt

\* Array::free_space_count_ (size_t arithmetic)
free_space_count_(a) ==
    (Len(a.data) * a.block_size - a.element_count) % SizeMod

\* the result of an array operation: st is "ok", the exception thrown, or
\* "crash" for undefined behaviour; h the heap, a the array, n the number of
\* allocations tried so far
Result(st, h, a, n) == [st |-> st, h |-> h, a |-> a, n |-> n]

\* variant of add_block_ that puts the new block in front of the others
add_block_Front(h, a, n, failAt) ==
    IF BadAlloc(h, a, n, failAt)
    THEN Result("UnavailableMemory", h, a, n + 1)
    ELSE LET b == Min(FreeBlocks(h, a))
             blk == [kind |-> a.kind,
                     slots |-> [i \in 1..a.block_size |-> DefaultElement(a.kind)],
                     dead |-> {}, used |-> {}, twice |-> h[b].twice]
         IN Result("ok", [h EXCEPT ![b] = blk],
                   [a EXCEPT !.data = <<b>> \o @], n + 1)

\* Array::add_block_
add_block_(h, a, n, failAt) ==
    IF BadAlloc(h, a, n, failAt)
    THEN Result("UnavailableMemory", h, a, n + 1)
    ELSE LET b == Min(FreeBlocks(h, a))
             blk == [kind |-> a.kind,
                     slots |-> [i \in 1..a.block_size |-> DefaultElement(a.kind)],
                     dead |-> {}, used |-> {}, twice |-> h[b].twice]
         IN Result("ok", [h EXCEPT ![b] = blk],
                   [a EXCEPT !.data = Append(@, b)], n + 1)

\* the slot data_[index / block_size_][index % block_size_] exists
HasSlot(a, index) ==
    /\ a.block_size > 0
    /\ index \div a.block_size < Len(a.data)

\* the address of data_[index / block_size_][index % block_size_]
SlotAddress(a, index) ==
    <<a.data[(index \div a.block_size) + 1], index % a.block_size>>

\* the record stored at an address
Deref(h, p) == h[p[1]].slots[p[2] + 1]

\* an address that can be dereferenced
ValidAddress(h, p) ==
    /\ p[1] \in BlockIds
    /\ h[p[1]].kind # "free"
    /\ p[2] + 1 \in 1..Len(h[p[1]].slots)

\* *p = e
Store(h, p, e) == [h EXCEPT ![p[1]].slots[p[2] + 1] = e]

\* the destructor of the element at p has run
Destroyed(h, p) == p[2] \in h[p[1]].dead

\* data_[..][..] = item: the element's copy assignment.  On an element whose
\* destructor has run it is undefined: the payload it assigns to was released
Assign(h, p, e) ==
    IF Destroyed(h, p)
    THEN [Store(h, p, e) EXCEPT ![p[1]].used = @ \cup {p[2]},
                                ![p[1]].dead = @ \ {p[2]}]
    ELSE Store(h, p, e)

\* data_[..][..].~element(): the explicit destructor call.  The element stays
\* in its block, which destroys it again when it is released
DestructorCall(h, p, kind, stores) ==
    [Store(h, p, Destructor(kind, Deref(h, p), stores))
        EXCEPT ![p[1]].dead = @ \cup {p[2]},
               ![p[1]].twice = @ \/ Destroyed(h, p)]

\* variant of push_back that stores the item in the first slot
push_backFirst(h, a, item, n, failAt) ==
    LET r == IF free_space_count_(a) = 0
             THEN add_block_(h, a, n, failAt)
             ELSE Result("ok", h, a, n)
    IN IF r.st # "ok" THEN r
       ELSE IF ~HasSlot(r.a, 0) THEN Result("crash", h, a, r.n)
       ELSE Result("ok",
                   Assign(r.h, SlotAddress(r.a, 0), item),
                   [r.a EXCEPT !.element_count = @ + 1], r.n)

\* variant of push_back that adds a block whenever the size is a multiple of
\* the block size
push_backBySize(h, a, item, n, failAt) ==
    LET r == IF a.block_size = 0 \/ a.element_count % a.block_size = 0
             THEN add_block_(h, a, n, failAt)
             ELSE Result("ok", h, a, n)
    IN IF r.st # "ok" THEN r
       ELSE IF ~HasSlot(r.a, r.a.element_count) THEN Result("crash", h, a, r.n)
       ELSE Result("ok",
                   Assign(r.h, SlotAddress(r.a, r.a.element_count), item),
                   [r.a EXCEPT !.element_count = @ + 1], r.n)

\* variant of push_back that counts the element before it has the block
push_backCountFirst(h, a, item, n, failAt) ==
    LET c == [a EXCEPT !.element_count = @ + 1]
        r == IF free_space_count_(a) = 0
             THEN add_block_(h, c, n, failAt)
             ELSE Result("ok", h, c, n)
    IN IF r.st # "ok" THEN r
       ELSE IF ~HasSlot(r.a, a.element_count) THEN Result("crash", h, a, r.n)
       ELSE Result("ok", Assign(r.h, SlotAddress(r.a, a.element_count), item),
                   r.a, r.n)

\* Array::push_back
push_back(h, a, item, n, failAt) ==
    LET r == IF free_space_count_(a) = 0
             THEN add_block_(h, a, n, failAt)
             ELSE Result("ok", h, a, n)
    IN IF r.st # "ok" THEN r
       ELSE IF ~HasSlot(r.a, r.a.element_count) THEN Result("crash", h, a, r.n)
       ELSE Result("ok",
                   Assign(r.h, SlotAddress(r.a, r.a.element_count), item),
                   [r.a EXCEPT !.element_count = @ + 1], r.n)

\* variant of pop_back that gives back a block that has become empty
pop_backReleasing(h, a, stores) ==
    IF a.element_count = 0 THEN Result("EmptyArray", h, a, 0)
    ELSE LET c == a.element_count - 1 IN
         IF ~HasSlot(a, c) THEN Result("crash", h, a, 0)
         ELSE LET p == SlotAddress(a, c)
                  hd == DestructorCall(h, p, a.kind, stores)
              IN IF p[2] = 0
                 THEN Result("ok", [hd EXCEPT ![p[1]] = FreeBlock],
                             [a EXCEPT !.element_count = c,
                                       !.data = SubSeq(@, 1, Len(@) - 1)], 0)
                 ELSE Result("ok", hd, [a EXCEPT !.element_count = c], 0)

\* Array::pop_back
pop_back(h, a, stores) ==
    IF a.element_count = 0 THEN Result("EmptyArray", h, a, 0)
    ELSE LET c == a.element_count - 1 IN
         IF ~HasSlot(a, c) THEN Result("crash", h, a, 0)
         ELSE LET p == SlotAddress(a, c) IN
              Result("ok", DestructorCall(h, p, a.kind, stores),
                     [a EXCEPT !.element_count = c], 0)

\* Array::size
size(a) == a.element_count

\* Array::get_ / at / operator[]: the address of the element, or the exception
get_(a, index) ==
    IF index >= a.element_count THEN [st |-> "OutOfRange", p |-> NULL]
    ELSE IF ~HasSlot(a, index) THEN [st |-> "crash", p |-> NULL]
    ELSE [st |-> "ok", p |-> SlotAddress(a, index)]

\* count blocks added by repeated add_block_ (the loop of the copy constructor)
RECURSIVE AddBlocks(_, _, _, _, _)
AddBlocks(h, a, count, n, failAt) ==
    IF count = 0 THEN Result("ok", h, a, n)
    ELSE LET r == add_block_(h, a, n, failAt) IN
         IF r.st # "ok" THEN r
         ELSE AddBlocks(r.h, r.a, count - 1, r.n, failAt)

\* while (data_.size() * block_size_ < count) add_block_();
RECURSIVE AddBlocksUntil(_, _, _, _, _)
AddBlocksUntil(h, a, count, n, failAt) ==
    IF ~(Len(a.data) * a.block_size < count) THEN Result("ok", h, a, n)
    ELSE LET r == add_block_(h, a, n, failAt) IN
         IF r.st # "ok" THEN r
         ELSE AddBlocksUntil(r.h, r.a, count, r.n, failAt)

\* for (i = from; i < a.element_count_; i++) a[i] = other[i];  (element-wise
\* copy assignment; "crash" when a slot read or written does not exist)
RECURSIVE CopyElements(_, _, _, _)
CopyElements(h, a, other, from) ==
    IF from >= a.element_count THEN [st |-> "ok", h |-> h]
    ELSE IF ~HasSlot(a, from) \/ ~HasSlot(other, from) THEN [st |-> "crash", h |-> h]
    ELSE CopyElements(Assign(h, SlotAddress(a, from), Deref(h, SlotAddress(other, from))),
                      a, other, from + 1)

\* for (i = from; i < element_count_; i++) data_[..][..].~element();
RECURSIVE DestroyElements(_, _, _, _)
DestroyElements(h, a, stores, from) ==
    IF from >= a.element_count THEN [st |-> "ok", h |-> h]
    ELSE IF ~HasSlot(a, from) THEN [st |-> "crash", h |-> h]
    ELSE LET p == SlotAddress(a, from) IN
         DestroyElements(DestructorCall(h, p, a.kind, stores), a, stores, from + 1)

\* the blocks of an array given back to the allocator (~unique_ptr): delete[]
\* runs the destructor of every element of the block, of those that were
\* destroyed explicitly too
FreeArray(h, a) ==
    [b \in BlockIds |->
        IF \E i \in 1..Len(a.data) : a.data[i] = b
        THEN [FreeBlock EXCEPT !.twice = h[b].twice \/ h[b].used # {} \/ h[b].dead # {}]
        ELSE h[b]]

\* Array(const Array& other), for a new array served from arena.  A
\* constructor that throws leaves no array and gives its blocks back.
ArrayCopy(h, other, arena, n, failAt) ==
    LET a0 == [Array(other.kind, arena, other.block_size)
                  EXCEPT !.element_count = other.element_count]
        r == AddBlocks(h, a0, Len(other.data), n, failAt)
    IN IF r.st # "ok" THEN Result(r.st, h, a0, r.n)
       ELSE LET c == CopyElements(r.h, r.a, other, 0) IN
            Result(c.st, c.h, r.a, r.n)

\* Array::operator=(const Array& other), called on array a
ArrayCopyAssign(h, a, other, stores, n, failAt) ==
    LET d == DestroyElements(h, a, stores, 0) IN
    IF d.st # "ok" THEN Result("crash", h, a, n)
    ELSE LET a1 == [a EXCEPT !.element_count = other.element_count]
             differ == a.block_size # other.block_size
             a2 == IF differ
                   THEN [a1 EXCEPT !.block_size = other.block_size, !.data = <<>>]
                   ELSE a1
             h2 == IF differ THEN FreeArray(d.h, a) ELSE d.h
             r == AddBlocksUntil(h2, a2, other.element_count, n, failAt)
         IN IF r.st # "ok" THEN r
            ELSE LET c == CopyElements(r.h, r.a, other, 0) IN
                 Result(c.st, c.h, r.a, r.n)

(***************************************************************************)
(* The adjacency matrix: a vector of rows of edge addresses                *)
(***************************************************************************)
\* std::vector<T>(k, x): a vector of k copies of x
RECURSIVE Vector(_, _)
Vector(k, x) == IF k = 0 THEN <<>> ELSE Append(Vector(k - 1, x), x)

\* std::vector::resize(k) on a row of addresses
resize(row, k) ==
    IF k <= Len(row) THEN SubSeq(row, 1, k)
    ELSE row \o Vector(k - Len(row), NULL)

\* adjacency_matrix_[s][t] is inside the vectors
InMatrix(m, s, t) == s < Len(m) /\ t < Len(m[s + 1])

\* An access to adjacency_matrix_[s][t] outside the vectors is undefined.  The
\* builds were seen to stop with a segmentation fault, or to go on with the
\* access made on memory that is not the matrix: wild tells which, and what a
\* read then finds
Wilds == {"crash", "null", "nonnull"}

\* some non-null pointer that is no record's address
WILD == <<0, 1>>

\* adjacency_matrix_[s][t]
Cell(m, s, t, wild) ==
    IF InMatrix(m, s, t) THEN m[s + 1][t + 1]
    ELSE IF wild = "null" THEN NULL ELSE WILD

\* adjacency_matrix_[s][t] = p (lost when the cell is outside the matrix)
SetCell(m, s, t, p) ==
    IF InMatrix(m, s, t) THEN [m EXCEPT ![s + 1][t + 1] = p] ELSE m

\* a variant that writes both cells whatever the orientation
SetCellsMirrored(m, und, source, target, p) ==
    SetCell(SetCell(m, source, target, p), target, source, p)

\* adjacency_matrix_[source][target] = p;
\* if (graph_->is_undirected()) adjacency_matrix_[target][source] = p;
SetCells(m, und, source, target, p) ==
    IF und THEN SetCell(SetCell(m, source, target, p), target, source, p)
    ELSE SetCell(m, source, target, p)

\* a variant whose handler leaves the extended rows as they are
grow_adjacency_matrixUnreverted(m, n, failAt) ==
    LET pre == Len(m)
        j == failAt - n
        throws == j \in 1..(pre + 2)
        extended == [i \in 1..pre |-> IF ~throws \/ i < j
                                      THEN Append(m[i], NULL) ELSE m[i]]
    IN IF ~throws
       THEN [st |-> "ok", n |-> n + pre + 2,
             m |-> Append(extended, Vector(pre + 1, NULL))]
       ELSE [st |-> "UnavailableMemory", n |-> n + j,
             m |-> SubSeq(extended, 1, pre)]

\* Edges::grow_adjacency_matrix: the pre rows are extended one by one, then
\* the new row is built and appended; each of these pre + 2 steps allocates.
\* When one throws, the handler resizes every row and the matrix back.
grow_adjacency_matrix(m, n, failAt) ==
    LET pre == Len(m)
        j == failAt - n            \* the step that throws, when in 1..pre + 2
        throws == j \in 1..(pre + 2)
        extended == [i \in 1..pre |-> IF ~throws \/ i < j
                                      THEN Append(m[i], NULL) ELSE m[i]]
    IN IF ~throws
       THEN [st |-> "ok", n |-> n + pre + 2,
             m |-> Append(extended, Vector(pre + 1, NULL))]
       ELSE [st |-> "UnavailableMemory", n |-> n + j,
             m |-> SubSeq([i \in 1..pre |-> resize(extended[i], pre)], 1, pre)]

(***************************************************************************)
(* Graph, Nodes and Edges.  A graph is the record of its two stores: the   *)
(* array of Nodes, and the array and the adjacency matrix of Edges.  The   *)
(* stores' graph_ back-reference always designates the graph that holds    *)
(* them: the constructors set it to this and no assignment changes it.     *)
(***************************************************************************)
\* the regions that serve the two arrays of graph object g
NodeArena(g) == 2 * g - 1
EdgeArena(g) == 2 * g

\* Graph(): nodes_(this), edges_(this), for graph object g
EmptyGraph(g) ==
    [alive |-> TRUE, nodes |-> Array("node", NodeArena(g), BlockSize),
     edges |-> Array("edge", EdgeArena(g), BlockSize), matrix |-> <<>>]

\* graph object g while it is not constructed
NoGraph(g) == [EmptyGraph(g) EXCEPT !.alive = FALSE]

\* the result of a store or graph operation on graph record G
GResult(st, h, G, n) == [st |-> st, h |-> h, G |-> G, n |-> n]

\* Nodes::add(id, data)
NodesAdd(h, G, id, data, stores, failAt) ==
    LET pre_modification_size == size(G.nodes) IN
    IF id > pre_modification_size THEN GResult("InvalidIdentifier", h, G, 0)
    ELSE IF id < pre_modification_size THEN GResult("ConflictingItem", h, G, 0)
    ELSE LET r == push_back(h, G.nodes, Node(id, data), 0, failAt) IN
         IF r.st = "crash" THEN GResult("crash", h, G, r.n)
         ELSE IF r.st # "ok"
         THEN \* catch (...): nothing was appended, nothing to pop
              GResult("UnavailableMemory", r.h, [G EXCEPT !.nodes = r.a], r.n)
         ELSE LET g == grow_adjacency_matrix(G.matrix, r.n, failAt) IN
              IF g.st = "ok"
              THEN GResult("ok", r.h, [G EXCEPT !.nodes = r.a, !.matrix = g.m], g.n)
              ELSE \* catch (...): if (nodes_.size() > pre) nodes_.pop_back();
                   LET p == pop_back(r.h, r.a, stores) IN
                   GResult("UnavailableMemory", p.h,
                           [G EXCEPT !.nodes = p.a, !.matrix = g.m], g.n)

\* the cells Edges::add(source, target) reads and writes are in the matrix
CellsInside(m, und, source, target) ==
    InMatrix(m, source, target) /\ (und => InMatrix(m, target, source))

\* variant of EdgesAddChecks that looks at the endpoints before the id
EdgesAddChecksEndpointsFirst(G, id, source, target, wild) ==
    LET pre_modification_size == size(G.edges)
        nodes_size == size(G.nodes)
    IN
    IF source >= nodes_size \/ target >= nodes_size THEN "NonexistingItem"
    ELSE IF id > pre_modification_size THEN "InvalidIdentifier"
    ELSE IF id < pre_modification_size THEN "ConflictingItem"
    ELSE IF ~InMatrix(G.matrix, source, target) /\ wild = "crash" THEN "crash"
    ELSE IF Cell(G.matrix, source, target, wild) # NULL THEN "ConflictingItem"
    ELSE "ok"

\* variant of EdgesAddChecks that takes the endpoints on trust
EdgesAddChecksNoEndpoints(G, id, source, target, wild) ==
    LET pre_modification_size == size(G.edges) IN
    IF id > pre_modification_size THEN "InvalidIdentifier"
    ELSE IF id < pre_modification_size THEN "ConflictingItem"
    ELSE IF ~InMatrix(G.matrix, source, target) /\ wild = "crash" THEN "crash"
    ELSE IF Cell(G.matrix, source, target, wild) # NULL THEN "ConflictingItem"
    ELSE "ok"

\* variant of EdgesAddChecks that accepts an add on an occupied cell
EdgesAddChecksAnyCell(G, id, source, target, wild) ==
    LET pre_modification_size == size(G.edges)
        nodes_size == size(G.nodes)
    IN
    IF id > pre_modification_size THEN "InvalidIdentifier"
    ELSE IF id < pre_modification_size THEN "ConflictingItem"
    ELSE IF source >= nodes_size \/ target >= nodes_size THEN "NonexistingItem"
    ELSE IF ~InMatrix(G.matrix, source, target) /\ wild = "crash" THEN "crash"
    ELSE "ok"

\* the checks of Edges::add, in the order the code makes them: the id against
\* the edge count, the endpoints against the node count, the cell of the pair
EdgesAddChecks(G, id, source, target, wild) ==
    LET pre_modification_size == size(G.edges)
        nodes_size == size(G.nodes)
    IN
    IF id > pre_modification_size THEN "InvalidIdentifier"
    ELSE IF id < pre_modification_size THEN "ConflictingItem"
    ELSE IF source >= nodes_size \/ target >= nodes_size THEN "NonexistingItem"
    ELSE IF ~InMatrix(G.matrix, source, target) /\ wild = "crash" THEN "crash"
    ELSE IF Cell(G.matrix, source, target, wild) # NULL THEN "ConflictingItem"
    ELSE "ok"

\* Edges::add(id, source, target, data); und is graph_->is_undirected()
EdgesAdd(h, G, id, source, target, data, und, wild, failAt) ==
    LET checks == EdgesAddChecks(G, id, source, target, wild) IN
    IF checks # "ok" THEN GResult(checks, h, G, 0)
    ELSE LET source_node == get_(G.nodes, source)
             target_node == get_(G.nodes, target)
         IN
         IF source_node.st # "ok" \/ target_node.st # "ok"
         THEN GResult("crash", h, G, 0)
         ELSE LET edge == Edge(id, source_node.p, target_node.p, data)
                  r == push_back(h, G.edges, edge, 0, failAt)
              IN
              IF r.st = "crash" THEN GResult("crash", h, G, r.n)
              ELSE IF ~CellsInside(G.matrix, und, source, target) /\ wild = "crash"
              THEN GResult("crash", h, G, r.n)
              ELSE IF r.st # "ok"
              THEN \* catch (...): the two cells are cleared again
                   GResult("UnavailableMemory", r.h,
                           [G EXCEPT !.edges = r.a,
                                     !.matrix = SetCells(G.matrix, und, source,
                                                         target, NULL)],
                           r.n)
              ELSE LET p == SlotAddress(r.a, size(r.a) - 1) IN
                   GResult("ok", r.h,
                           [G EXCEPT !.edges = r.a,
                                     !.matrix = SetCells(G.matrix, und, source,
                                                         target, p)],
                           r.n)

\* Nodes::exists(id) / Edges::exists(id)
exists(a, id) == id < size(a)

\* Nodes::get(id) / Edges::get(id): the address of the record, or the exception
get(a, id) ==
    IF ~exists(a, id) THEN [st |-> "NonexistingItem", p |-> NULL]
    ELSE get_(a, id)

\* Edges::exists(source, target)
ExistsPair(G, source, target) ==
    LET adjacency_matrix_size == Len(G.matrix) IN
    IF source >= adjacency_matrix_size \/ target >= adjacency_matrix_size
    THEN [st |-> "NonexistingItem", v |-> FALSE]
    ELSE IF ~InMatrix(G.matrix, source, target) THEN [st |-> "crash", v |-> FALSE]
    ELSE [st |-> "ok", v |-> G.matrix[source + 1][target + 1] # NULL]

\* Edges::get(source, target): the address held by the cell, or the exception
GetPair(G, source, target) ==
    LET adjacency_matrix_size == Len(G.matrix) IN
    IF source >= adjacency_matrix_size \/ target >= adjacency_matrix_size
    THEN [st |-> "NonexistingItem", p |-> NULL]
    ELSE IF ~InMatrix(G.matrix, source, target) THEN [st |-> "crash", p |-> NULL]
    ELSE IF G.matrix[source + 1][target + 1] = NULL
    THEN [st |-> "NonexistingItem", p |-> NULL]
    ELSE [st |-> "ok", p |-> G.matrix[source + 1][target + 1]]

\* p is the address of a live node record (what getSource() / getTarget()
\* must point to for getId() to be defined)
NodeAddress(h, p) == ValidAddress(h, p) /\ h[p[1]].kind = "node"

\* Edges::update_source_and_target_pointers, from edge number i on
RECURSIVE UpdatePointersFrom(_, _, _)
UpdatePointersFrom(h, G, i) ==
    IF i >= size(G.edges) THEN [st |-> "ok", h |-> h]
    ELSE IF ~HasSlot(G.edges, i) THEN [st |-> "crash", h |-> h]
    ELSE LET p == SlotAddress(G.edges, i)
             e == Deref(h, p)
         IN
         IF ~NodeAddress(h, e.source) \/ ~NodeAddress(h, e.target)
         THEN [st |-> "crash", h |-> h]
         ELSE LET updated_source == get(G.nodes, Deref(h, e.source).id)
                  updated_target == get(G.nodes, Deref(h, e.target).id)
              IN
              IF updated_source.st = "crash" \/ updated_target.st = "crash"
              THEN [st |-> "crash", h |-> h]
              ELSE IF updated_source.st # "ok" \/ updated_target.st # "ok"
              THEN [st |-> "NonexistingItem", h |-> h]
              ELSE UpdatePointersFrom(
                       Store(h, p, update_node_pointers(e, updated_source.p,
                                                        updated_target.p)),
                       G, i + 1)

\* variant of update_source_and_target_pointers that leaves the edges alone
keep_source_and_target_pointers(h, G) == [st |-> "ok", h |-> h]

update_source_and_target_pointers(h, G) == UpdatePointersFrom(h, G, 0)

\* the loop of construct_adjacency_matrix over the stored edges, from edge i
RECURSIVE FillMatrixFrom(_, _, _, _, _)
FillMatrixFrom(h, G, m, und, i) ==
    IF i >= size(G.edges) THEN [st |-> "ok", m |-> m]
    ELSE IF ~HasSlot(G.edges, i) THEN [st |-> "crash", m |-> m]
    ELSE LET p == SlotAddress(G.edges, i)
             e == Deref(h, p)
         IN
         IF ~NodeAddress(h, e.source) \/ ~NodeAddress(h, e.target)
         THEN [st |-> "crash", m |-> m]
         ELSE LET s == Deref(h, e.source).id
                  t == Deref(h, e.target).id
              IN
              IF ~InMatrix(m, s, t) \/ (und /\ ~InMatrix(m, t, s))
              THEN [st |-> "crash", m |-> m]
              ELSE FillMatrixFrom(h, G, SetCells(m, und, s, t, p), und, i + 1)

\* a variant that enters every edge in the cell of its source and target only
construct_adjacency_matrixUnmirrored(h, G, und, n, failAt) ==
    LET nodes_size == size(G.nodes)
        j == failAt - n
        throws == j \in 1..nodes_size
        rows == IF throws THEN j - 1 ELSE nodes_size
        empty == Vector(rows, Vector(nodes_size, NULL))
    IN IF throws THEN [st |-> "UnavailableMemory", m |-> empty, n |-> n + j]
       ELSE LET f == FillMatrixFrom(h, G, empty, FALSE, 0) IN
            [st |-> f.st, m |-> f.m, n |-> n + nodes_size]

\* Edges::construct_adjacency_matrix: the matrix is emptied, nodes_size rows
\* are emplaced (each allocates and may throw), then every edge is written
construct_adjacency_matrix(h, G, und, n, failAt) ==
    LET nodes_size == size(G.nodes)
        j == failAt - n
        throws == j \in 1..nodes_size
        rows == IF throws THEN j - 1 ELSE nodes_size
        empty == Vector(rows, Vector(nodes_size, NULL))
    IN IF throws THEN [st |-> "UnavailableMemory", m |-> empty, n |-> n + j]
       ELSE LET f == FillMatrixFrom(h, G, empty, und, 0) IN
            [st |-> f.st, m |-> f.m, n |-> n + nodes_size]

\* DirectedGraph(const DirectedGraph&) / UndirectedGraph(const UndirectedGraph&):
\* Graph(other) copies the nodes, then the edges (Edges(other, this) rebinds the
\* edges' node pointers), then the variant constructs the matrix.  A throw
\* leaves no object; the blocks allocated so far are given back.
GraphCopyConstruct(h, g, other, und, failAt) ==
    LET Matrix(G1, u, c) ==
            IF c.st # "ok" THEN GResult(c.st, h, NoGraph(g), c.n)
            ELSE GResult("ok", u.h, [G1 EXCEPT !.matrix = c.m], c.n)
        Rebound(G1, n, u) ==
            IF u.st # "ok" THEN GResult(u.st, h, NoGraph(g), n)
            ELSE Matrix(G1, u, construct_adjacency_matrix(u.h, G1, und, n, failAt))
        Built(G1, re) ==
            Rebound(G1, re.n, update_source_and_target_pointers(re.h, G1))
        EdgesCopied(rn, re) ==
            IF re.st # "ok" THEN GResult(re.st, h, NoGraph(g), re.n)
            ELSE Built([alive |-> TRUE, nodes |-> rn.a, edges |-> re.a,
                        matrix |-> <<>>], re)
        NodesCopied(rn) ==
            IF rn.st # "ok" THEN GResult(rn.st, h, NoGraph(g), rn.n)
            ELSE EdgesCopied(rn, ArrayCopy(rn.h, other.edges, EdgeArena(g),
                                           rn.n, failAt))
    IN NodesCopied(ArrayCopy(h, other.nodes, NodeArena(g), 0, failAt))

\* Graph::operator=(const Graph& other) on graph G:
\*   nodes_ = other.nodes_;  edges_ = other.edges_;
\* where Edges::operator= copies the array, rebinds the node pointers and
\* constructs the matrix.  In a self-assignment other is G itself.
GraphCopyAssign(h, G, other, und, stores, failAt) ==
    LET Matrix(G2, u, c) ==
            GResult(c.st, u.h, [G2 EXCEPT !.matrix = c.m], c.n)
        Rebound(G2, n, u) ==
            IF u.st # "ok" THEN GResult(u.st, u.h, G2, n)
            ELSE Matrix(G2, u, construct_adjacency_matrix(u.h, G2, und, n, failAt))
        EdgesAssigned(G2, re) ==
            IF re.st # "ok" THEN GResult(re.st, re.h, G2, re.n)
            ELSE Rebound(G2, re.n, update_source_and_target_pointers(re.h, G2))
        EdgesOf(G1, re) == EdgesAssigned([G1 EXCEPT !.edges = re.a], re)
        NodesAssigned(G1, rn) ==
            IF rn.st # "ok" THEN GResult(rn.st, rn.h, G1, rn.n)
            ELSE EdgesOf(G1, ArrayCopyAssign(rn.h, G1.edges, other.edges, stores,
                                             rn.n, failAt))
        NodesOf(rn) == NodesAssigned([G EXCEPT !.nodes = rn.a], rn)
    IN NodesOf(ArrayCopyAssign(h, G.nodes, other.nodes, stores, 0, failAt))

\* ~Graph(): the blocks of both arrays are released
GraphDestroy(h, G) == FreeArray(FreeArray(h, G.nodes), G.edges)

\* DirectedGraph c(std::move(g)): the variants declare a copy constructor and
\* no move constructor, so the rvalue binds to the copy constructor.
\* (Graph(Graph&&) itself cannot be instantiated: its std::swap of Nodes and of
\* Edges needs a move constructor that neither class has.)
GraphMoveConstruct(h, g, other, und, failAt) ==
    GraphCopyConstruct(h, g, other, und, failAt)

\* a = std::move(b) on the variants: for the same reason the implicit copy
\* assignment of the variant is chosen, which calls Graph::operator=(const Graph&)
GraphMoveAssign(h, G, other, und, stores, failAt) ==
    GraphCopyAssign(h, G, other, und, stores, failAt)

(***************************************************************************)
(* The state machine                                                       *)
(***************************************************************************)
\* the addresses a client gets for the records of a store (operator[] on each id)
\* the addresses of the records of array a, as get(id) returns them (NULL
\* where the lookup is undefined)
Addresses(a) ==
    [i \in 1..size(a) |-> IF get_(a, i - 1).st = "ok" THEN get_(a, i - 1).p ELSE NULL]

\* what the caller holds of a graph G it has just constructed or written by a
\* copy: the addresses it looks up
Observe(G) == [nodes |-> Addresses(G.nodes), edges |-> Addresses(G.edges)]

\* the region of the array used on its own
ArrayArena == 5
\* the region of the second array
OtherArena == 6
\* an array that is not constructed, or was destroyed
NoArray == Array("none", OtherArena, 0)

\* the back-references of a graph object that holds no stores
NoStores == [nodes |-> 0, edges |-> 0]

\* nodes_(this), edges_(this) / nodes_(other.nodes_, this),
\* edges_(other.edges_, this): every constructor of graph object g hands
\* this to its two stores
ConstructedBy(g) == [nodes |-> g, edges |-> g]

\* a variant in which an assignment hands over the back-references with the
\* records
AssignedMemberwise(a, b) == graph_[b]

\* a = b and a = std::move(b): Nodes::operator= and Edges::operator= assign
\* or swap nodes_, edges_ and adjacency_matrix_ and leave graph_ alone
Assigned(a, b) == graph_[a]

\* the back-references after an operation that leaves those of graph object
\* g as given by stores, while the object lives and the program runs
Owned(g, stores) ==
    graph_' = IF crashed' THEN [x \in Graphs |-> NoStores]
              ELSE [graph_ EXCEPT ![g] = IF graphs'[g].alive THEN stores
                                         ELSE NoStores]

Init ==
    /\ heap = [b \in BlockIds |-> FreeBlock]
    /\ graph_ = [g \in Graphs |-> IF g = 1 THEN ConstructedBy(g) ELSE NoStores]
    /\ graphs = [g \in Graphs |-> IF g = 1 THEN EmptyGraph(g) ELSE NoGraph(g)]
    /\ undirected \in BOOLEAN
    /\ crashed = FALSE
    /\ faults = 0
    /\ seen = [g \in Graphs |-> Observe(graphs[g])]
    /\ array = Array("node", ArrayArena, BlockSize)
    /\ contents = <<>>
    /\ second = NoArray

\* A slot past element_count_ is never read: get_ checks the index, the copies
\* stop at element_count_ and push_back overwrites the slot.  What such a slot
\* holds (a destroyed or a value-initialised record) is not part of the state.
Scrub(h, a) ==
    [b \in BlockIds |->
        IF \E k \in 1..Len(a.data) : a.data[k] = b
        THEN LET k == CHOOSE k \in 1..Len(a.data) : a.data[k] = b IN
             [h[b] EXCEPT !.slots =
                 [o \in 1..Len(h[b].slots) |->
                     IF (k - 1) * a.block_size + (o - 1) >= a.element_count
                     THEN DefaultElement(a.kind) ELSE h[b].slots[o]]]
        ELSE h[b]]

\* the operation that left heap h assigned to a destroyed element, or
\* destroyed one again
Reused(h) == \E b \in BlockIds : h[b].used # {}
Misused(h) == \E b \in BlockIds : h[b].used # {} \/ h[b].twice

\* Using an element after its destructor is undefined.  With a payload that
\* owns memory (std::string) the builds were seen to stop in free() ("double
\* free detected"), or to go on, the assigned payload lying in released
\* memory where it reads back as given or as other bytes: reuse tells which
Reuses == {"kept", "garbled", "crash"}

\* the heap an operation leaves, by what the build made of its uses of
\* destroyed elements
Settle(h, reuse) ==
    [b \in BlockIds |->
        [h[b] EXCEPT !.used = {}, !.twice = FALSE,
                     !.slots = [o \in 1..Len(h[b].slots) |->
                                   IF reuse = "garbled" /\ (o - 1) \in h[b].used
                                   THEN [h[b].slots[o] EXCEPT !.data = Garbage]
                                   ELSE h[b].slots[o]]]]

\* some payload in heap h reads as garbage
Garbled(h) ==
    \E b \in BlockIds : \E o \in 1..Len(h[b].slots) : h[b].slots[o].data = Garbage

\* the effect of an operation on graph g whose result is r; obs is what the
\* caller then holds as the addresses of g's records
Effect(g, r, obs) ==
    \E reuse \in {"kept", "crash"} :
    /\ reuse = "crash" => Misused(r.h)
    /\ faults' = IF r.st = "UnavailableMemory" THEN faults + 1 ELSE faults
    /\ UNCHANGED <<undirected, array, contents, second>>
    /\ IF r.st = "crash" \/ reuse = "crash"
       THEN \* the process is gone, and its objects with it
            /\ crashed' = TRUE
            /\ heap' = [b \in BlockIds |-> FreeBlock]
            /\ graphs' = [x \in Graphs |-> NoGraph(x)]
            /\ seen' = [x \in Graphs |-> Observe(NoGraph(x))]
       ELSE /\ crashed' = crashed
            /\ heap' = Scrub(Scrub(Settle(r.h, reuse), r.G.nodes), r.G.edges)
            /\ graphs' = [graphs EXCEPT ![g] = r.G]
            /\ seen' = [seen EXCEPT ![g] = obs]

\* an allocation failure may be injected while fewer than MaxFaults were
MayFail(failAt) == failAt # 0 => faults < MaxFaults

\* DirectedGraph g; / UndirectedGraph g;
Construct(g) ==
    /\ ~crashed /\ ~graphs[g].alive
    /\ Effect(g, GResult("ok", heap, EmptyGraph(g), 0), Observe(EmptyGraph(g)))
    /\ Owned(g, ConstructedBy(g))

\* the graph goes out of scope
Destroy(g) ==
    /\ ~crashed /\ graphs[g].alive
    /\ Effect(g, GResult("ok", GraphDestroy(heap, graphs[g]), NoGraph(g), 0),
              Observe(NoGraph(g)))
    /\ Owned(g, NoStores)

\* g.nodes().add(id, data); the caller keeps the reference add returns
NodeAdd(g, id, data, failAt, stores) ==
    /\ ~crashed /\ graphs[g].alive /\ MayFail(failAt)
    /\ id = size(graphs[g].nodes) => id < MaxNodes
    /\ LET r == NodesAdd(heap, graphs[g], id, data, stores, failAt) IN
       Effect(g, r,
              IF r.st = "ok"
              THEN [seen[g] EXCEPT !.nodes = Append(@, SlotAddress(r.G.nodes, id))]
              ELSE seen[g])
    /\ Owned(g, graph_[g])

\* g.edges().add(id, source, target, data); the caller keeps the reference
EdgeAdd(g, id, source, target, data, wild, failAt) ==
    /\ ~crashed /\ graphs[g].alive /\ MayFail(failAt)
    /\ CellsInside(graphs[g].matrix, undirected, source, target) => wild = "crash"
    /\ id = size(graphs[g].edges) => id < MaxEdges
    /\ LET r == EdgesAdd(heap, graphs[g], id, source, target, data, undirected,
                         wild, failAt) IN
       Effect(g, r,
              IF r.st = "ok"
              THEN [seen[g] EXCEPT !.edges = Append(@, SlotAddress(r.G.edges, id))]
              ELSE seen[g])
    /\ Owned(g, graph_[g])

\* C c(g): copy construction of the variant
CopyConstruct(c, g, failAt) ==
    /\ ~crashed /\ ~graphs[c].alive /\ graphs[g].alive /\ MayFail(failAt)
    /\ LET r == GraphCopyConstruct(heap, c, graphs[g], undirected, failAt) IN
       Effect(c, r, Observe(r.G))
    /\ Owned(c, ConstructedBy(c))

\* a = b: copy assignment
CopyAssign(a, b, failAt, stores) ==
    /\ ~crashed /\ graphs[a].alive /\ graphs[b].alive /\ MayFail(failAt)
    /\ LET r == GraphCopyAssign(heap, graphs[a], graphs[b], undirected,
                                stores, failAt) IN
       Effect(a, r, Observe(r.G))
    /\ Owned(a, Assigned(a, b))

\* C c(std::move(g))
MoveConstruct(c, g, failAt) ==
    /\ ~crashed /\ ~graphs[c].alive /\ graphs[g].alive /\ MayFail(failAt)
    /\ LET r == GraphMoveConstruct(heap, c, graphs[g], undirected, failAt) IN
       Effect(c, r, Observe(r.G))
    /\ Owned(c, ConstructedBy(c))

\* a = std::move(b)
MoveAssign(a, b, failAt, stores) ==
    /\ ~crashed /\ graphs[a].alive /\ graphs[b].alive /\ MayFail(failAt)
    /\ LET r == GraphMoveAssign(heap, graphs[a], graphs[b], undirected,
                                stores, failAt) IN
       Effect(a, r, Observe(r.G))
    /\ Owned(a, Assigned(a, b))

\* the inputs offered to the operations
Ids == 0..MaxNodes
EdgeIds == 0..MaxEdges
FailAts == 0..MaxFailAt
\* Edges::add allocates at most once
EdgeFailAts == 0..1
\* the (source, target) pairs offered to Edges::add: a pair and its reverse
\* (absent from a graph of fewer than two nodes)
EdgePairs == {<<0, 1>>, <<1, 0>>}

\* A failure is injected only into a call that gets as far as allocating, and
\* the outcome of the destructors is left open only where a failure makes
\* them count (otherwise every destroyed record is overwritten or dropped)
Armed(failAt, stores, allocates) ==
    /\ failAt # 0 => allocates
    /\ stores => failAt # 0

Next ==
    \/ \E g \in Graphs : Construct(g)
    \/ \E g \in Graphs : Destroy(g)
    \/ \E g \in Graphs, id \in Ids, data \in NData, failAt \in FailAts,
          stores \in BOOLEAN :
          /\ Armed(failAt, stores, id = size(graphs[g].nodes))
          /\ NodeAdd(g, id, data, failAt, stores)
    \/ \E g \in Graphs, id \in EdgeIds, pair \in EdgePairs,
          data \in EData, wild \in Wilds, failAt \in EdgeFailAts :
          /\ Armed(failAt, FALSE, id = size(graphs[g].edges))
          /\ EdgeAdd(g, id, pair[1], pair[2], data, wild, failAt)
    \/ \E c \in Graphs, g \in Graphs, failAt \in FailAts : CopyConstruct(c, g, failAt)
    \/ \E a \in Graphs, b \in Graphs, failAt \in FailAts, stores \in BOOLEAN :
          a # b /\ Armed(failAt, stores, TRUE) /\ CopyAssign(a, b, failAt, stores)
    \/ \E c \in Graphs, g \in Graphs, failAt \in FailAts : MoveConstruct(c, g, failAt)
    \/ \E a \in Graphs, b \in Graphs, failAt \in FailAts, stores \in BOOLEAN :
          a # b /\ Armed(failAt, stores, TRUE) /\ MoveAssign(a, b, failAt, stores)

Spec == Init /\ [][Next]_vars

\* the programs that never copy-assign a graph
NextMoves ==
    \/ \E g \in Graphs : Construct(g)
    \/ \E g \in Graphs : Destroy(g)
    \/ \E g \in Graphs, id \in Ids, data \in NData, failAt \in FailAts,
          stores \in BOOLEAN :
          /\ Armed(failAt, stores, id = size(graphs[g].nodes))
          /\ NodeAdd(g, id, data, failAt, stores)
    \/ \E g \in Graphs, id \in EdgeIds, pair \in EdgePairs,
          data \in EData, wild \in Wilds, failAt \in EdgeFailAts :
          /\ Armed(failAt, FALSE, id = size(graphs[g].edges))
          /\ EdgeAdd(g, id, pair[1], pair[2], data, wild, failAt)
    \/ \E c \in Graphs, g \in Graphs, failAt \in FailAts : CopyConstruct(c, g, failAt)
    \/ \E c \in Graphs, g \in Graphs, failAt \in FailAts : MoveConstruct(c, g, failAt)
    \/ \E a \in Graphs, b \in Graphs, failAt \in FailAts, stores \in BOOLEAN :
          a # b /\ Armed(failAt, stores, TRUE) /\ MoveAssign(a, b, failAt, stores)

SpecMoves == Init /\ [][NextMoves]_vars

\* the programs in which every graph assignment runs to completion: graphs
\* are built by adds (which may fail), copied, moved and destroyed
NextCopies ==
    \/ \E g \in Graphs : Construct(g)
    \/ \E g \in Graphs : Destroy(g)
    \/ \E g \in Graphs, id \in Ids, data \in NData, failAt \in FailAts,
          stores \in BOOLEAN :
          /\ Armed(failAt, stores, id = size(graphs[g].nodes))
          /\ NodeAdd(g, id, data, failAt, stores)
    \/ \E g \in Graphs, id \in EdgeIds, pair \in EdgePairs,
          data \in EData, wild \in Wilds, failAt \in EdgeFailAts :
          /\ Armed(failAt, FALSE, id = size(graphs[g].edges))
          /\ EdgeAdd(g, id, pair[1], pair[2], data, wild, failAt)
    \/ \E c \in Graphs, g \in Graphs, failAt \in FailAts : CopyConstruct(c, g, failAt)
    \/ \E a \in Graphs, b \in Graphs : a # b /\ CopyAssign(a, b, 0, FALSE)
    \/ \E c \in Graphs, g \in Graphs, failAt \in FailAts : MoveConstruct(c, g, failAt)
    \/ \E a \in Graphs, b \in Graphs : a # b /\ MoveAssign(a, b, 0, FALSE)

SpecCopies == Init /\ [][NextCopies]_vars

(* ----- an array used on its own ----- *)

\* the items offered to Array::push_back
Items == {Node(id, data) : id \in Ids, data \in NData}

\* the effect of an operation on the array whose result is r; items is what
\* the caller then counts as the contents of the array.  An operation that
\* assigned to an element whose destructor had run may end the program or
\* leave a payload that reads as garbage
ArrayEffect(r, items) ==
    \E reuse \in Reuses :
    /\ reuse = "crash" => Misused(r.h)
    /\ reuse = "garbled" => Reused(r.h)
    /\ faults' = IF r.st = "UnavailableMemory" THEN faults + 1 ELSE faults
    /\ UNCHANGED <<graphs, undirected, seen, second, graph_>>
    /\ IF r.st = "crash" \/ reuse = "crash"
       THEN /\ crashed' = TRUE
            /\ heap' = [b \in BlockIds |-> FreeBlock]
            /\ array' = Array("node", ArrayArena, BlockSize)
            /\ contents' = <<>>
       ELSE /\ crashed' = crashed
            /\ heap' = Scrub(Settle(r.h, reuse), r.a)
            /\ array' = r.a
            /\ contents' = items

\* array.push_back(item), within what the region can hold
ArrayPushBack(item, failAt) ==
    /\ ~crashed /\ MayFail(failAt)
    /\ size(array) < MaxBlocks * BlockSize
    /\ LET r == push_back(heap, array, item, 0, failAt) IN
       ArrayEffect(r, IF r.st = "ok" THEN Append(contents, item) ELSE contents)

\* array.pop_back()
ArrayPopBack(stores) ==
    /\ ~crashed
    /\ LET r == pop_back(heap, array, stores) IN
       ArrayEffect(r, IF r.st = "ok"
                      THEN SubSeq(contents, 1, Len(contents) - 1)
                      ELSE contents)

\* the programs that use an array on its own: appends, which may fail, and
\* removals of the last element
NextArray ==
    \/ \E item \in Items, failAt \in EdgeFailAts :
          /\ Armed(failAt, FALSE, free_space_count_(array) = 0)
          /\ ArrayPushBack(item, failAt)
    \/ \E stores \in BOOLEAN : ArrayPopBack(stores)

SpecArray == Init /\ [][NextArray]_vars

(* ----- two arrays, one moved to the other ----- *)

\* Array(Array&& other): the new array starts with no block, block_size_ 0
\* and element_count_ 0 and swaps the three fields with other.  D is the new
\* array, S what other is left as (arena: the region it would allocate from)
ArrayMove(other, arena) ==
    [D |-> other, S |-> Array(other.kind, arena, 0)]

\* D = std::move(S): Array::operator=(Array&&) swaps the three fields
ArrayMoveAssign(D, S) == [D |-> S, S |-> D]

\* the items array a holds in heap h, first k of them
RECURSIVE Held(_, _, _)
Held(h, a, k) ==
    IF k = 0 THEN <<>>
    ELSE Append(Held(h, a, k - 1), Deref(h, SlotAddress(a, k - 1)))

\* the effect of an operation that leaves heap h and the arrays a and s
ArraysEffect(h, a, s) ==
    \E reuse \in {"kept", "crash"} :
    /\ reuse = "crash" => Misused(h)
    /\ UNCHANGED <<graphs, undirected, seen, faults, graph_>>
    /\ IF reuse = "crash"
       THEN /\ crashed' = TRUE
            /\ heap' = [b \in BlockIds |-> FreeBlock]
            /\ array' = Array("node", ArrayArena, BlockSize)
            /\ contents' = <<>>
            /\ second' = NoArray
       ELSE /\ crashed' = crashed
            /\ heap' = Settle(h, reuse)
            /\ array' = a
            /\ contents' = Held(h, a, size(a))
            /\ second' = s

\* the region the partner of array a allocates from
Partner(a) == IF a.arena = ArrayArena THEN OtherArena ELSE ArrayArena

\* Array<Node<NData>> second;
SecondConstruct ==
    /\ ~crashed /\ second.kind = "none"
    /\ ArraysEffect(heap, array, Array("node", Partner(array), BlockSize))

\* Array<Node<NData>> second(std::move(array));
SecondMoveConstruct ==
    /\ ~crashed /\ second.kind = "none"
    /\ LET m == ArrayMove(array, Partner(array)) IN
       ArraysEffect(heap, m.S, m.D)

\* second = std::move(array);
MoveToSecond ==
    /\ ~crashed /\ second.kind # "none"
    /\ LET m == ArrayMoveAssign(second, array) IN
       ArraysEffect(heap, m.S, m.D)

\* array = std::move(second);
MoveFromSecond ==
    /\ ~crashed /\ second.kind # "none"
    /\ LET m == ArrayMoveAssign(array, second) IN
       ArraysEffect(heap, m.D, m.S)

\* second goes out of scope
SecondDestroy ==
    /\ ~crashed /\ second.kind # "none"
    /\ ArraysEffect(FreeArray(heap, second), array,
                    [NoArray EXCEPT !.arena = Partner(array)])

\* the programs that append to an array, remove from it and move it to a
\* second array and back; the item appended tells the position it went to
NextArrayMoves ==
    \/ \E failAt \in EdgeFailAts :
          /\ Armed(failAt, FALSE, free_space_count_(array) = 0)
          /\ ArrayPushBack(Node(size(array), "a"), failAt)
    \/ \E stores \in BOOLEAN : ArrayPopBack(stores)
    \/ SecondConstruct
    \/ SecondMoveConstruct
    \/ MoveToSecond
    \/ MoveFromSecond
    \/ SecondDestroy

SpecArrayMoves == Init /\ [][NextArrayMoves]_vars

(***************************************************************************)
(* A graph of each variant.  The program holds a DirectedGraph and an      *)
(* UndirectedGraph and makes every add on both, catching what either       *)
(* throws.  Graph object 1 has the orientation `undirected`, graph object  *)
(* 2 the other one.                                                        *)
(***************************************************************************)
\* is_undirected() of graph object g
is_undirected(g) == IF g = 1 THEN undirected ELSE ~undirected

\* the (source, target) pairs offered to both graphs: every pair of node ids
\* there can be, a node with itself included
VariantPairs == (0..(MaxNodes - 1)) \X (0..(MaxNodes - 1))

\* the state after a call with result r1 on graph 1 and a call with result
\* r2, made in the heap r1 left, on graph 2
BothEffect(r1, r2) ==
    /\ ~crashed /\ graphs[1].alive /\ graphs[2].alive
    /\ r1.st # "crash" /\ r2.st # "crash"
    /\ heap' = r2.h
    /\ graphs' = [graphs EXCEPT ![1] = r1.G, ![2] = r2.G]
    /\ seen' = [seen EXCEPT ![1] = Observe(r1.G), ![2] = Observe(r2.G)]
    /\ UNCHANGED <<undirected, crashed, faults, array, contents, second, graph_>>

\* d.nodes().add(id, data); u.nodes().add(id, data);
BothNodeAdd(id, data) ==
    /\ id < MaxNodes
    /\ LET After(r1) ==
               BothEffect(r1, NodesAdd(r1.h, graphs[2], id, data, FALSE, 0))
       IN After(NodesAdd(heap, graphs[1], id, data, FALSE, 0))

\* d.edges().add(id, source, target, data);
\* u.edges().add(id, source, target, data);
BothEdgeAdd(id, source, target, data) ==
    /\ id < MaxEdges
    /\ LET After(r1) ==
               BothEffect(r1, EdgesAdd(r1.h, graphs[2], id, source, target, data,
                                       is_undirected(2), "crash", 0))
       IN After(EdgesAdd(heap, graphs[1], id, source, target, data,
                         is_undirected(1), "crash", 0))

NextVariants ==
    \/ Construct(2)
    \/ \E id \in Ids, data \in NData : BothNodeAdd(id, data)
    \/ \E id \in EdgeIds, pair \in VariantPairs, data \in EData :
          BothEdgeAdd(id, pair[1], pair[2], data)

SpecVariants == Init /\ [][NextVariants]_vars

(***************************************************************************)
(* One graph built by adds.  The program makes node adds and edge adds,    *)
(* on every pair of node ids, a node with itself included, and catches     *)
(* what they throw; allocations may fail.                                  *)
(***************************************************************************)
NextAdds ==
    \/ \E id \in Ids, data \in NData, failAt \in FailAts, stores \in BOOLEAN :
          /\ Armed(failAt, stores, id = size(graphs[1].nodes))
          /\ NodeAdd(1, id, data, failAt, stores)
    \/ \E id \in EdgeIds, pair \in VariantPairs, data \in EData, wild \in Wilds,
          failAt \in EdgeFailAts :
          /\ Armed(failAt, FALSE, id = size(graphs[1].edges))
          /\ EdgeAdd(1, id, pair[1], pair[2], data, wild, failAt)

SpecAdds == Init /\ [][NextAdds]_vars

(***************************************************************************)
(* Properties                                                              *)
(***************************************************************************)

\* the addresses refs the caller got from add or get are still those of the
\* records of array a, and can be dereferenced
Stable(h, a, refs) ==
    \A i \in 1..Len(refs) :
        refs[i] # NULL =>
            /\ get_(a, i - 1).st = "ok"
            /\ get_(a, i - 1).p = refs[i]
            /\ ValidAddress(h, refs[i])
            /\ h[refs[i][1]].kind = a.kind

\* C1: address stability.  The address (block, offset) that add returned for
\* record i of a node store or an edge store is the address of record i after
\* any number of further insertions into that store, as long as the store was
\* not copied over or destroyed.
AddressStability ==
    \A g \in Graphs :
        graphs[g].alive =>
            /\ Stable(heap, graphs[g].nodes, seen[g].nodes)
            /\ Stable(heap, graphs[g].edges, seen[g].edges)

\* a node store that has grown into its second block and an edge store with
\* two edges, in the only graph there is, with every address the caller holds
\* still that of its record
AddressStabilityWitness ==
    /\ graphs[1].alive /\ ~graphs[2].alive /\ faults = 0
    /\ Len(graphs[1].nodes.data) = 2
    /\ size(graphs[1].nodes) > BlockSize
    /\ size(graphs[1].edges) = MaxEdges
    /\ Len(seen[1].nodes) = size(graphs[1].nodes)
    /\ Len(seen[1].edges) = size(graphs[1].edges)
    /\ \A i \in 1..Len(seen[1].nodes) : seen[1].nodes[i] # NULL
    /\ AddressStability

(* ----- what a caller reads from a graph ----- *)

\* Nodes::get(i) / Edges::get(i) can be called and return a record
Readable(h, a, i) == get(a, i).st = "ok" /\ ValidAddress(h, get(a, i).p)

\* getId() of the record get(i) returns (-1 where the lookup is undefined)
IdAt(h, a, i) == IF Readable(h, a, i) THEN Deref(h, get(a, i).p).id ELSE -1

\* getData() of the record get(i) returns
DataAt(h, a, i) == IF Readable(h, a, i) THEN Deref(h, get(a, i).p).data ELSE NoData

\* getId() of the node p points to (-1 where p is no node's address)
NodeIdAt(h, p) == IF NodeAddress(h, p) THEN Deref(h, p).id ELSE -1

\* getSource().getId() and getTarget().getId() of edge i
EdgeEnds(h, G, i) ==
    IF Readable(h, G.edges, i)
    THEN LET e == Deref(h, get(G.edges, i).p) IN
         <<NodeIdAt(h, e.source), NodeIdAt(h, e.target)>>
    ELSE <<-1, -1>>

\* the ids 0 .. size - 1 of a store
IdsOf(a) == 0..(size(a) - 1)

(* ----- C2 ----- *)

Dense(h, a) == \A i \in IdsOf(a) : Readable(h, a, i) /\ IdAt(h, a, i) = i

\* C2: dense ids.  In every state reached by node adds and edge adds
\* (successful or failing), graph copy constructions and graph moves, the i-th
\* node of a graph has id i and its i-th edge has id i, for every i below the
\* store's size.
DenseIds ==
    \A g \in Graphs :
        graphs[g].alive => Dense(heap, graphs[g].nodes) /\ Dense(heap, graphs[g].edges)

(* ----- C3 ----- *)

\* at most one stored edge per ordered (source, target) pair
OneEdgePerPair(h, G) ==
    \A i \in IdsOf(G.edges), j \in IdsOf(G.edges) :
        /\ i < j
        /\ EdgeEnds(h, G, i)[1] \in IdsOf(G.nodes)
        /\ EdgeEnds(h, G, i)[2] \in IdsOf(G.nodes)
        => EdgeEnds(h, G, i) # EdgeEnds(h, G, j)

\* an edge add on an occupied cell is rejected and changes nothing
OccupiedCellRejected(h, G, und) ==
    \A source \in IdsOf(G.nodes), target \in IdsOf(G.nodes) :
        ExistsPair(G, source, target) = [st |-> "ok", v |-> TRUE] =>
            LET r == EdgesAdd(h, G, size(G.edges), source, target, "x", und,
                              "crash", 0) IN
            r.st = "ConflictingItem" /\ r.h = h /\ r.G = G

\* C3: no multigraph.  In every reachable state at most one stored edge has a
\* given ordered (source, target) pair; an edge add whose cell is occupied
\* (in an undirected graph also the cell of the reverse pair of a stored
\* edge) fails with ConflictingItem and changes nothing.
NoMultigraph ==
    \A g \in Graphs :
        graphs[g].alive =>
            /\ OneEdgePerPair(heap, graphs[g])
            /\ OccupiedCellRejected(heap, graphs[g], undirected)

(* ----- C4 ----- *)

\* C4: undirected symmetry.  In an undirected graph, for all node ids s and t
\* in range exists(s, t) and exists(t, s) give the same answer, and where an
\* edge exists get(s, t) and get(t, s) return the same record: the same
\* address, holding the same edge id.
UndirectedSymmetry ==
    undirected =>
        \A g \in Graphs :
            graphs[g].alive =>
                \A s \in IdsOf(graphs[g].nodes), t \in IdsOf(graphs[g].nodes) :
                    /\ ExistsPair(graphs[g], s, t) = ExistsPair(graphs[g], t, s)
                    /\ ExistsPair(graphs[g], s, t).v =>
                          /\ GetPair(graphs[g], s, t).st = "ok"
                          /\ GetPair(graphs[g], s, t) = GetPair(graphs[g], t, s)

(* ----- C5 ----- *)

\* C5: matrix shape.  After every completed public operation on a graph the
\* adjacency matrix has exactly n rows of exactly n cells, n being the size
\* of the node store.
MatrixShape ==
    \A g \in Graphs :
        graphs[g].alive =>
            /\ Len(graphs[g].matrix) = size(graphs[g].nodes)
            /\ \A r \in 1..Len(graphs[g].matrix) :
                   Len(graphs[g].matrix[r]) = size(graphs[g].nodes)

(* ----- C6 ----- *)

\* address p lies in a block of array a
OwnedBy(a, p) == \E k \in 1..Len(a.data) : a.data[k] = p[1]

\* graph C, in heap h, is a faithful copy of graph G
CopiedFrom(h, C, G) ==
    /\ size(C.nodes) = size(G.nodes)
    /\ size(C.edges) = size(G.edges)
    /\ \A i \in IdsOf(G.nodes) :
          /\ Readable(h, C.nodes, i)
          /\ DataAt(h, C.nodes, i) = DataAt(h, G.nodes, i)
    /\ \A i \in IdsOf(G.edges) :
          /\ Readable(h, C.edges, i)
          /\ DataAt(h, C.edges, i) = DataAt(h, G.edges, i)
          /\ EdgeEnds(h, C, i) = EdgeEnds(h, G, i)
          /\ LET e == Deref(h, get(C.edges, i).p) IN
                /\ NodeAddress(h, e.source) /\ NodeAddress(h, e.target)
                /\ OwnedBy(C.nodes, e.source) /\ OwnedBy(C.nodes, e.target)
                /\ ~OwnedBy(G.nodes, e.source) /\ ~OwnedBy(G.nodes, e.target)

\* C6: copy fidelity.  A graph C copy-constructed from a graph G has as many
\* nodes and edges as G, the same payload per node id and edge id, the same
\* source and target id per edge, and the edges of C refer to node records of
\* C's own node store, never to those of G.
CopyFidelity ==
    \A c \in Graphs, g \in Graphs :
        ~graphs[c].alive /\ graphs[g].alive =>
            LET r == GraphCopyConstruct(heap, c, graphs[g], undirected, 0) IN
            r.st = "ok" => CopiedFrom(r.h, r.G, graphs[g])

\* graph 2 is a faithful copy of graph 1, which has three nodes and two edges
CopyFidelityWitness ==
    /\ graphs[1].alive /\ graphs[2].alive /\ faults = 0
    /\ size(graphs[1].nodes) = MaxNodes
    /\ size(graphs[1].edges) = MaxEdges
    /\ CopiedFrom(heap, graphs[2], graphs[1])

(* ----- C7 ----- *)

\* what a caller reads of graph G: per node its id and payload, per edge its
\* id, payload and endpoint ids, and the matrix
View(h, G) ==
    [nodes |-> [i \in 1..size(G.nodes) |->
                   <<IdAt(h, G.nodes, i - 1), DataAt(h, G.nodes, i - 1)>>],
     edges |-> [i \in 1..size(G.edges) |->
                   <<IdAt(h, G.edges, i - 1), DataAt(h, G.edges, i - 1),
                     EdgeEnds(h, G, i - 1)>>],
     matrix |-> G.matrix]

\* the id of the edge get(source, target) returns (-1 when it throws)
PairEdgeId(h, G, source, target) ==
    LET r == GetPair(G, source, target) IN
    IF r.st = "ok" /\ ValidAddress(h, r.p) THEN Deref(h, r.p).id ELSE -1

\* edge i of G as get(i) and get(source, target) resolve it
Resolves(h, G, i) ==
    LET ends == EdgeEnds(h, G, i) IN
    [ends |-> ends,
     pair |-> IF ends[1] \in IdsOf(G.nodes) /\ ends[2] \in IdsOf(G.nodes)
              THEN PairEdgeId(h, G, ends[1], ends[2]) ELSE -1]

\* an add on graph C with result r leaves graph G as it was and the edges C
\* had resolving as they did
IndependentAdd(r, C, G) ==
    r.st # "crash" =>
        /\ View(r.h, G) = View(heap, G)
        /\ \A i \in IdsOf(C.edges) : Resolves(r.h, r.G, i) = Resolves(heap, C, i)

\* C7: copy independence.  With a graph G and its copy C, a node add or an
\* edge add applied to C leaves G's node count, edge count, payloads, edge
\* endpoints and matrix unchanged, and every edge C held before still
\* resolves, through get(id) and get(source, target), to the same source and
\* target node ids inside C; so it is after any sequence of them.
CopyIndependence ==
    \A c \in Graphs, g \in Graphs :
        c # g /\ graphs[c].alive /\ graphs[g].alive =>
            /\ \A id \in Ids :
                   \A failAt \in (IF id = size(graphs[c].nodes) THEN FailAts ELSE {0}) :
                       \A stores \in (IF failAt = 0 THEN {FALSE} ELSE BOOLEAN) :
                           IndependentAdd(
                               NodesAdd(heap, graphs[c], id, "a", stores, failAt),
                               graphs[c], graphs[g])
            /\ \A id \in EdgeIds, pair \in EdgePairs, wild \in Wilds :
                   \A failAt \in (IF id = size(graphs[c].edges) THEN EdgeFailAts ELSE {0}) :
                       IndependentAdd(
                           EdgesAdd(heap, graphs[c], id, pair[1], pair[2], "x",
                                    undirected, wild, failAt),
                           graphs[c], graphs[g])

\* graph 1 has two nodes and one edge; graph 2 has the same two nodes and the
\* same edge, which resolves as in graph 1, and a third node of its own
CopyIndependenceWitness ==
    /\ graphs[1].alive /\ graphs[2].alive /\ faults = 0
    /\ size(graphs[1].nodes) = 2 /\ size(graphs[1].edges) = 1
    /\ size(graphs[2].nodes) = 3 /\ size(graphs[2].edges) = 1
    /\ Len(graphs[1].matrix) = 2 /\ Len(graphs[2].matrix) = 3
    /\ Resolves(heap, graphs[2], 0) = Resolves(heap, graphs[1], 0)
    /\ Resolves(heap, graphs[2], 0).pair = 0
    /\ OwnedBy(graphs[2].nodes, Deref(heap, get(graphs[2].edges, 0).p).source)

(* ----- C8 ----- *)

\* C8: move construction.  After C is move-constructed from G, C holds G's
\* nodes, edges and matrix as they were before the move, and G is an empty
\* graph (no node, no edge, a 0 x 0 matrix) that accepts a node add with id 0.
MoveConstruction ==
    [][\A c \in Graphs, g \in Graphs, failAt \in FailAts :
          MoveConstruct(c, g, failAt) /\ graphs'[c].alive =>
              /\ View(heap', graphs'[c]).nodes = View(heap, graphs[g]).nodes
              /\ View(heap', graphs'[c]).edges = View(heap, graphs[g]).edges
              /\ size(graphs'[g].nodes) = 0
              /\ size(graphs'[g].edges) = 0
              /\ graphs'[g].matrix = <<>>
              /\ NodesAdd(heap', graphs'[g], 0, "a", FALSE, 0).st = "ok"]_vars

(* ----- C9 ----- *)

\* C9: a move preserves records and references.  A graph move, construction
\* or assignment, hands over both stores: the records the destination holds
\* after the move are at the addresses they had in the source, and its
\* matrix is the source's, nothing being rebuilt.
MovePreservesRecords ==
    [][/\ \A c \in Graphs, g \in Graphs, failAt \in FailAts :
             MoveConstruct(c, g, failAt) /\ graphs'[c].alive =>
                 /\ Addresses(graphs'[c].nodes) = Addresses(graphs[g].nodes)
                 /\ Addresses(graphs'[c].edges) = Addresses(graphs[g].edges)
                 /\ graphs'[c].matrix = graphs[g].matrix
       /\ \A a \in Graphs, b \in Graphs, failAt \in FailAts, stores \in BOOLEAN :
             a # b /\ MoveAssign(a, b, failAt, stores) /\ faults' = faults /\ ~crashed' =>
                 /\ Addresses(graphs'[a].nodes) = Addresses(graphs[b].nodes)
                 /\ Addresses(graphs'[a].edges) = Addresses(graphs[b].edges)
                 /\ graphs'[a].matrix = graphs[b].matrix]_vars

(* ----- C10 ----- *)

\* C10: node add id validation.  Nodes::add(id, payload) with id above the
\* size fails with InvalidIdentifier and with id below it with
\* ConflictingItem, both leaving the node count, the edge count and the matrix
\* unchanged; with id equal to the size it succeeds and the size grows by one.
NodeAddValidation ==
    \A g \in Graphs :
        graphs[g].alive =>
            \A id \in Ids :
                LET G == graphs[g]
                    r == NodesAdd(heap, G, id, "a", FALSE, 0)
                IN
                /\ id > size(G.nodes) =>
                      r.st = "InvalidIdentifier" /\ r.G = G /\ r.h = heap
                /\ id < size(G.nodes) =>
                      r.st = "ConflictingItem" /\ r.G = G /\ r.h = heap
                /\ id = size(G.nodes) =>
                      r.st = "ok" /\ size(r.G.nodes) = size(G.nodes) + 1

(* ----- C11 ----- *)

\* the ids and endpoints a caller may pass to Edges::add, valid or not
AnyEdgeIds == 0..(MaxEdges + 1)
AnyNodeIds == 0..MaxNodes

\* C11: edge add id validation.  Edges::add(id, source, target, payload) with
\* id above the edge count fails with InvalidIdentifier and with id below it
\* with ConflictingItem, whatever source and target are (existing or not,
\* their cell occupied or not), and the stores and the matrix are unchanged.
EdgeAddIdValidation ==
    \A g \in Graphs :
        graphs[g].alive =>
            \A id \in AnyEdgeIds, source \in AnyNodeIds, target \in AnyNodeIds,
               wild \in Wilds :
                LET G == graphs[g]
                    r == EdgesAdd(heap, G, id, source, target, "x", undirected,
                                  wild, 0)
                IN
                /\ id > size(G.edges) =>
                      r.st = "InvalidIdentifier" /\ r.G = G /\ r.h = heap
                /\ id < size(G.edges) =>
                      r.st = "ConflictingItem" /\ r.G = G /\ r.h = heap

\* a graph of two nodes and two edges: an add with id 3 and a missing target
\* is turned down for its id, and so is an add with id 1 for a free pair
EdgeAddIdValidationWitness ==
    \E g \in Graphs :
        /\ graphs[g].alive
        /\ size(graphs[g].nodes) = 2 /\ size(graphs[g].edges) = MaxEdges
        /\ ~ExistsPair(graphs[g], 1, 1).v
        /\ EdgesAdd(heap, graphs[g], MaxEdges + 1, 0, MaxNodes, "x", undirected,
                    "crash", 0).st = "InvalidIdentifier"
        /\ EdgesAdd(heap, graphs[g], 1, 1, 1, "x", undirected,
                    "crash", 0).st = "ConflictingItem"

(* ----- C12 ----- *)

\* C12: edge add with a missing endpoint.  When the id is the edge count and
\* source or target is not the id of a current node, Edges::add fails with
\* NonexistingItem (the NonexistentItem kind); no edge is stored and no
\* matrix cell changes.
EdgeAddMissingEndpoint ==
    \A g \in Graphs :
        graphs[g].alive =>
            \A source \in AnyNodeIds, target \in AnyNodeIds, wild \in Wilds,
               failAt \in EdgeFailAts :
                LET G == graphs[g]
                    r == EdgesAdd(heap, G, size(G.edges), source, target, "x",
                                  undirected, wild, failAt)
                IN
                source >= size(G.nodes) \/ target >= size(G.nodes) =>
                    /\ r.st = "NonexistingItem"
                    /\ r.G.edges = G.edges /\ r.G.matrix = G.matrix
                    /\ r.G = G /\ r.h = heap

\* a graph of three nodes and an edge: an add from node 0 to a node 3 that
\* does not exist is turned down, and so is one from a node 3
EdgeAddMissingEndpointWitness ==
    \E g \in Graphs :
        /\ graphs[g].alive
        /\ size(graphs[g].nodes) = MaxNodes /\ size(graphs[g].edges) = 1
        /\ EdgesAdd(heap, graphs[g], 1, 0, MaxNodes, "x", undirected,
                    "crash", 0).st = "NonexistingItem"
        /\ EdgesAdd(heap, graphs[g], 1, MaxNodes, 0, "x", undirected,
                    "crash", 0).st = "NonexistingItem"

(* ----- C13 ----- *)

\* an edge of G is recorded for the ordered pair (source, target): stored
\* with these endpoints, or in an undirected graph with the reversed ones
Recorded(h, G, und, source, target) ==
    \E i \in IdsOf(G.edges) :
        \/ EdgeEnds(h, G, i) = <<source, target>>
        \/ und /\ EdgeEnds(h, G, i) = <<target, source>>

\* C13: pair existence test.  exists(source, target) fails with
\* NonexistingItem exactly when source or target is outside the current node
\* range, and otherwise returns true if and only if an edge is recorded for
\* that ordered pair (false for two existing, unconnected nodes).  It is a
\* const member function and an operator of the state here: it changes nothing.
PairExistence ==
    \A g \in Graphs :
        graphs[g].alive =>
            \A source \in AnyNodeIds, target \in AnyNodeIds :
                LET G == graphs[g]
                    r == ExistsPair(G, source, target)
                    outside == source >= size(G.nodes) \/ target >= size(G.nodes)
                IN
                /\ (r.st = "NonexistingItem") <=> outside
                /\ ~outside =>
                      /\ r.st = "ok"
                      /\ r.v <=> Recorded(heap, G, undirected, source, target)

(* ----- C14 ----- *)

\* which NonexistingItemException Edges::get(source, target) throws: the one
\* for ids outside the node range or the one for an absent edge ("" if none)
GetPairError(G, source, target) ==
    LET adjacency_matrix_size == Len(G.matrix) IN
    IF source >= adjacency_matrix_size \/ target >= adjacency_matrix_size
    THEN "accessing_edge_with_nonexistant_nodes"
    ELSE IF InMatrix(G.matrix, source, target)
            /\ G.matrix[source + 1][target + 1] = NULL
    THEN "accessing_nonexistant_edge_with_source_target"
    ELSE ""

\* get(id) on a store: NonexistingItem if and only if id >= size, and
\* otherwise the record whose id is id
LookupById(h, a, id) ==
    LET r == get(a, id) IN
    /\ (r.st = "NonexistingItem") <=> id >= size(a)
    /\ id < size(a) =>
          r.st = "ok" /\ ValidAddress(h, r.p) /\ Deref(h, r.p).id = id

\* C14: lookup errors.  Nodes::get(id) and Edges::get(id) fail with
\* NonexistingItem if and only if id >= the size of the store and otherwise
\* return the record with that id; Edges::get(source, target) fails with the
\* node-range NonexistingItem when either id is outside the node range, with
\* the edge-absence NonexistingItem when both nodes exist and no edge is
\* recorded for the pair, and otherwise returns the edge recorded for it.
LookupErrors ==
    \A g \in Graphs :
        graphs[g].alive =>
            LET G == graphs[g] IN
            /\ \A id \in AnyNodeIds : LookupById(heap, G.nodes, id)
            /\ \A id \in AnyEdgeIds : LookupById(heap, G.edges, id)
            /\ \A source \in AnyNodeIds, target \in AnyNodeIds :
                  LET r == GetPair(G, source, target)
                      outside == source >= size(G.nodes) \/ target >= size(G.nodes)
                      recorded == Recorded(heap, G, undirected, source, target)
                  IN
                  /\ outside =>
                        /\ r.st = "NonexistingItem"
                        /\ GetPairError(G, source, target)
                               = "accessing_edge_with_nonexistant_nodes"
                  /\ ~outside /\ ~recorded =>
                        /\ r.st = "NonexistingItem"
                        /\ GetPairError(G, source, target)
                               = "accessing_nonexistant_edge_with_source_target"
                  /\ ~outside /\ recorded =>
                        /\ r.st = "ok" /\ ValidAddress(heap, r.p)
                        /\ LET e == Deref(heap, r.p) IN
                              /\ e.id \in IdsOf(G.edges)
                              /\ get(G.edges, e.id).p = r.p
                              /\ \/ EdgeEnds(heap, G, e.id) = <<source, target>>
                                 \/ undirected
                                    /\ EdgeEnds(heap, G, e.id) = <<target, source>>

(* ----- C15 ----- *)

\* C15: transactional node add.  When Nodes::add has appended the node
\* record and growing the adjacency matrix then fails, the add ends with
\* UnavailableMemory (the AllocationFailure kind) and the size of the node
\* store, exists(id) for every id and the matrix, shape and cells, are what
\* they were before the call.
TransactionalNodeAdd ==
    \A g \in Graphs :
        graphs[g].alive =>
            \A failAt \in FailAts \ {0}, stores \in BOOLEAN :
                LET G == graphs[g]
                    id == size(G.nodes)
                    appended == push_back(heap, G.nodes, Node(id, "a"), 0, failAt)
                    r == NodesAdd(heap, G, id, "a", stores, failAt)
                IN
                (/\ appended.st = "ok"
                 /\ grow_adjacency_matrix(G.matrix, appended.n, failAt).st # "ok") =>
                    /\ r.st = "UnavailableMemory"
                    /\ size(r.G.nodes) = size(G.nodes)
                    /\ \A i \in AnyNodeIds :
                          exists(r.G.nodes, i) = exists(G.nodes, i)
                    /\ r.G.matrix = G.matrix

\* a graph of two nodes and an edge between them, in which a node add that
\* fails while the matrix grows leaves two nodes and the 2 x 2 matrix
TransactionalNodeAddWitness ==
    \E g \in Graphs :
        LET G == graphs[g]
            r == NodesAdd(heap, G, 2, "a", TRUE, 2)
        IN
        /\ G.alive /\ size(G.nodes) = 2 /\ size(G.edges) = 1
        /\ Len(G.matrix) = 2 /\ ExistsPair(G, 0, 1).v
        /\ push_back(heap, G.nodes, Node(2, "a"), 0, 2).st = "ok"
        /\ r.st = "UnavailableMemory"
        /\ size(r.G.nodes) = 2 /\ r.G.matrix = G.matrix

(* ----- C16 ----- *)

\* C16: transactional edge add.  When the append of the edge record fails,
\* Edges::add ends with UnavailableMemory (the AllocationFailure kind) and the
\* edge count, exists(source, target), exists(target, source) and every
\* other matrix cell are what they were before the call, in directed and in
\* undirected graphs.
TransactionalEdgeAdd ==
    \A g \in Graphs :
        graphs[g].alive =>
            \A source \in AnyNodeIds, target \in AnyNodeIds, wild \in Wilds :
                LET G == graphs[g]
                    id == size(G.edges)
                    r == EdgesAdd(heap, G, id, source, target, "x", undirected,
                                  wild, 1)
                IN
                (/\ EdgesAddChecks(G, id, source, target, wild) = "ok"
                 /\ BadAlloc(heap, G.edges, 0, 1)
                 /\ free_space_count_(G.edges) = 0) =>
                    /\ r.st = "UnavailableMemory"
                    /\ size(r.G.edges) = size(G.edges)
                    /\ ExistsPair(r.G, source, target) = ExistsPair(G, source, target)
                    /\ ExistsPair(r.G, target, source) = ExistsPair(G, target, source)
                    /\ r.G.matrix = G.matrix

\* a graph of two nodes and no edge, in which the add of edge (0, 1) fails
\* for want of memory and leaves no edge and an empty matrix
TransactionalEdgeAddWitness ==
    \E g \in Graphs :
        LET G == graphs[g]
            r == EdgesAdd(heap, G, 0, 0, 1, "x", undirected, "crash", 1)
        IN
        /\ G.alive /\ size(G.nodes) = 2 /\ size(G.edges) = 0
        /\ r.st = "UnavailableMemory"
        /\ size(r.G.edges) = 0
        /\ ~ExistsPair(r.G, 0, 1).v /\ ~ExistsPair(r.G, 1, 0).v

(* ----- C17 ----- *)

\* C17: all-or-nothing copy assignment.  When a block allocation fails
\* part-way through the copy assignment of a graph (the node store first,
\* then the edge store and the rebuild of the matrix), the assignment target
\* is left in the state it had before the call: the same sizes, the same
\* elements, the same matrix.
CopyAssignAllOrNothing ==
    [][\A a \in Graphs, b \in Graphs, failAt \in FailAts, stores \in BOOLEAN :
          a # b /\ CopyAssign(a, b, failAt, stores) /\ faults' = faults + 1 =>
              /\ size(graphs'[a].nodes) = size(graphs[a].nodes)
              /\ size(graphs'[a].edges) = size(graphs[a].edges)
              /\ View(heap', graphs'[a]) = View(heap, graphs[a])]_vars

(* ----- C18 ----- *)

\* a failed add with result r, repeated with result retry, against the same
\* add never failing, with result first: the failed add left the size alone,
\* the retry succeeds, the new record has the id asked for, and the graph is
\* the one the add would have made at once, in every outcome the retry can
\* have: one that assigns to an element whose destructor has run may end the
\* program or leave a payload that reads as garbage
RetryResult(G, id, r, retry, first, a, ra, retrya) ==
    r.st = "UnavailableMemory" /\ first.st = "ok" =>
        /\ size(ra) = size(a)
        /\ retry.st = "ok"
        /\ size(retrya) = size(a) + 1
        /\ IdAt(retry.h, retrya, id) = id
        /\ \A reuse \in Reuses :
              (reuse # "kept" => Misused(retry.h)) =>
                  /\ reuse # "crash"
                  /\ View(Settle(retry.h, reuse), retry.G) = View(first.h, first.G)

\* C18: retry after allocation failure.  After a node add or an edge add
\* has failed with UnavailableMemory (the AllocationFailure kind), the same
\* call repeated with the same id and arguments, allocation now succeeding,
\* completes; the new record has the id equal to the unchanged size, and
\* sizes, ids, payloads and matrix are those the first call would have
\* produced had it not failed.
RetryAfterFailure ==
    \A g \in Graphs :
        graphs[g].alive =>
            LET G == graphs[g] IN
            /\ \A failAt \in FailAts \ {0}, stores \in BOOLEAN :
                  LET id == size(G.nodes)
                      r == NodesAdd(heap, G, id, "a", stores, failAt)
                      retry == NodesAdd(r.h, r.G, id, "a", FALSE, 0)
                      first == NodesAdd(heap, G, id, "a", FALSE, 0)
                  IN RetryResult(G, id, r, retry, first,
                                 G.nodes, r.G.nodes, retry.G.nodes)
            /\ \A source \in AnyNodeIds, target \in AnyNodeIds, wild \in Wilds :
                  LET id == size(G.edges)
                      r == EdgesAdd(heap, G, id, source, target, "x", undirected,
                                    wild, 1)
                      retry == EdgesAdd(r.h, r.G, id, source, target, "x",
                                        undirected, wild, 0)
                      first == EdgesAdd(heap, G, id, source, target, "x",
                                        undirected, wild, 0)
                  IN RetryResult(G, id, r, retry, first,
                                 G.edges, r.G.edges, retry.G.edges)

(* ----- C19 ----- *)

\* C19: stable container remove_last.  pop_back on an array of size 0 ends
\* with EmptyArray (the EmptyContainer kind) and changes nothing; on any
\* other array it returns, the size is one less, the elements 0..size-2 and
\* their addresses are what they were, and no block is released.  Over the
\* appends and removals of a running program the number of blocks never
\* decreases, and blocks * block_size >= size throughout.
StableRemoveLast ==
    [][/\ \A stores \in BOOLEAN :
            ArrayPopBack(stores) =>
                LET r == pop_back(heap, array, stores) IN
                IF size(array) = 0
                THEN /\ r.st = "EmptyArray"
                     /\ UNCHANGED <<heap, array, crashed>>
                ELSE /\ r.st = "ok"
                     /\ crashed' = crashed
                     /\ size(array') = size(array) - 1
                     /\ \A i \in 0..(size(array) - 2) :
                           /\ get_(array', i).st = "ok"
                           /\ get_(array', i).p = get_(array, i).p
                           /\ Deref(heap', get_(array', i).p)
                                 = Deref(heap, get_(array, i).p)
                     /\ array'.data = array.data
                     /\ \A k \in 1..Len(array.data) :
                           heap'[array.data[k]].kind # "free"
       /\ ~crashed' =>
             /\ Len(array'.data) >= Len(array.data)
             /\ Len(array'.data) * array'.block_size >= size(array')]_vars

\* an array of one element and two blocks: three elements were appended and
\* two of them removed, the second block staying with the array
StableRemoveLastWitness ==
    /\ ~crashed
    /\ size(array) = 1 /\ Len(array.data) = 2
    /\ Len(contents) = 1
    /\ Destroyed(heap, <<array.data[1], 1>>)
    /\ Destroyed(heap, <<array.data[2], 0>>)
    /\ heap[array.data[2]].kind = "node"

(* ----- C20 ----- *)

\* C20: stable container indexing.  On an array of a running program get_
\* (at, operator[]) ends with OutOfRange exactly for the indices at or above
\* the size, positions that were popped included; for an index i below the
\* size it returns the slot of block i / block_size at offset
\* i % block_size, and that slot holds the item most recently appended at
\* position i.
StableIndexing ==
    ~crashed =>
        \A i \in 0..(MaxBlocks * BlockSize) :
            LET r == get_(array, i) IN
            /\ r.st = "OutOfRange" <=> i >= size(array)
            /\ i < size(array) =>
                  /\ r.st = "ok"
                  /\ r.p = <<array.data[(i \div array.block_size) + 1],
                             i % array.block_size>>
                  /\ ValidAddress(heap, r.p)
                  /\ Deref(heap, r.p) = contents[i + 1]

(* ----- text export and import ----- *)
\* A text is a sequence of lines, a line a sequence of characters.

Digits == <<"0", "1", "2", "3", "4", "5", "6", "7", "8", "9">>

\* os << n: the decimal digits of a size_t
RECURSIVE Decimal(_)
Decimal(n) ==
    IF n < 10 THEN <<Digits[n + 1]>>
    ELSE Append(Decimal(n \div 10), Digits[(n % 10) + 1])

\* os << data for a payload: the text of the payload (payloads are texts of
\* one character, the value-initialised payload is the empty text)
PayloadText(data) == IF data = NoData THEN <<>> ELSE <<data>>

\* operator<<(ostream&, const Node&), without the end of line
NodeLine(id, data) ==
    <<"n", "o", "d", "e", " ", "(">> \o Decimal(id) \o <<" ", "{">>
        \o PayloadText(data) \o <<"}", ")">>

\* operator<<(ostream&, const Edge&), without the end of line
EdgeLine(source, id, data, target) ==
    <<"e", "d", "g", "e", " ", "(">> \o Decimal(source) \o <<")", "-", "[">>
        \o Decimal(id) \o <<" ", "{">> \o PayloadText(data)
        \o <<"}", "]", "-", ">", "(">> \o Decimal(target) \o <<")">>

\* Nodes::print followed by Edges::print: the lines of Graph::print, or
\* "crash" when a record or an endpoint it reads is not there
RECURSIVE NodeLines(_, _, _)
NodeLines(h, G, k) ==
    IF k = 0 THEN <<>>
    ELSE Append(NodeLines(h, G, k - 1),
                NodeLine(IdAt(h, G.nodes, k - 1), DataAt(h, G.nodes, k - 1)))

RECURSIVE EdgeLines(_, _, _)
EdgeLines(h, G, k) ==
    IF k = 0 THEN <<>>
    ELSE LET ends == EdgeEnds(h, G, k - 1) IN
         Append(EdgeLines(h, G, k - 1),
                EdgeLine(ends[1], IdAt(h, G.edges, k - 1),
                         DataAt(h, G.edges, k - 1), ends[2]))

\* every record Graph::print reads is there, and every endpoint of an edge
Exportable(h, G) ==
    /\ \A i \in 0..(size(G.nodes) - 1) : Readable(h, G.nodes, i)
    /\ \A i \in 0..(size(G.edges) - 1) :
          /\ Readable(h, G.edges, i)
          /\ EdgeEnds(h, G, i)[1] >= 0 /\ EdgeEnds(h, G, i)[2] >= 0

\* Graph::print
export(h, G) ==
    IF ~Exportable(h, G) THEN [st |-> "crash", text |-> <<>>]
    ELSE [st |-> "ok",
          text |-> NodeLines(h, G, size(G.nodes)) \o EdgeLines(h, G, size(G.edges))]

\* the position of the first delim in chars (Len(chars) + 1 when there is none)
RECURSIVE Find(_, _, _)
Find(chars, delim, k) ==
    IF k > Len(chars) \/ chars[k] = delim THEN k ELSE Find(chars, delim, k + 1)

\* std::getline(iss, tok, delim): the characters before delim; rest is what
\* the stream still holds
getline(chars, delim) ==
    LET k == Find(chars, delim, 1) IN
    [tok |-> SubSeq(chars, 1, k - 1), rest |-> SubSeq(chars, k + 1, Len(chars))]

\* iss.get(): one character is skipped
Skip(chars) == IF chars = <<>> THEN <<>> ELSE Tail(chars)

\* the value of the digit c, -1 for any other character
DigitValue(c) ==
    IF \E d \in 1..Len(Digits) : Digits[d] = c
    THEN (CHOOSE d \in 1..Len(Digits) : Digits[d] = c) - 1
    ELSE -1

\* INT_MAX, as far below SIZE_MAX as int is below size_t
INT_MAX == 2^15 - 1

\* stoi(tok, &p) on a text without sign or blanks: the number its leading
\* digits spell, -1 when there is none or it exceeds INT_MAX (stoi throws);
\* k digits were read into acc so far
RECURSIVE stoi(_, _, _)
stoi(tok, k, acc) ==
    IF k > Len(tok) \/ DigitValue(tok[k]) < 0
    THEN [v |-> IF k = 1 THEN -1 ELSE acc, p |-> k - 1]
    ELSE LET n == acc * 10 + DigitValue(tok[k]) IN
         IF n > INT_MAX THEN [v |-> -1, p |-> k]
         ELSE stoi(tok, k + 1, n)

\* Graph::parse_id: the id read up to delim (-1: ParsingException), and the
\* rest of the stream
parse_id(chars, delim) ==
    LET l == getline(chars, delim)
        n == stoi(l.tok, 1, 0)
    IN [id |-> IF n.v < 0 \/ n.p # Len(l.tok) THEN -1 ELSE n.v, rest |-> l.rest]

\* std::istringstream(data_string) >> data: the first word of the text, the
\* value-initialised payload when there is none
ReadPayload(chars) ==
    LET k == Find(chars, " ", 1) IN
    IF k = 1 THEN NoData ELSE chars[1]

\* Graph::import_node on the rest of a line
import_node(h, G, chars) ==
    IF chars = <<>> THEN GResult("ok", h, G, 0)
    ELSE LET i == parse_id(Skip(chars), " ")
             d == getline(Skip(i.rest), "}")
         IN IF i.id < 0 THEN GResult("Parsing", h, G, 0)
            ELSE NodesAdd(h, G, i.id, ReadPayload(d.tok), FALSE, 0)

\* Graph::import_edge on the rest of a line
import_edge(h, G, und, chars) ==
    IF chars = <<>> THEN GResult("ok", h, G, 0)
    ELSE LET s == parse_id(Skip(chars), ")")
             e == parse_id(Skip(Skip(s.rest)), " ")
             d == getline(Skip(e.rest), "}")
             t == parse_id(Skip(Skip(Skip(Skip(d.rest)))), ")")
         IN IF s.id < 0 \/ e.id < 0 \/ t.id < 0 THEN GResult("Parsing", h, G, 0)
            ELSE EdgesAdd(h, G, e.id, s.id, t.id, ReadPayload(d.tok), und,
                          "crash", 0)

\* Graph::import_line
import_line(h, G, und, line) ==
    IF line = <<>> THEN GResult("ok", h, G, 0)
    ELSE LET l == getline(line, " ") IN
         IF l.tok = <<"n", "o", "d", "e">> THEN import_node(h, G, l.rest)
         ELSE IF l.tok = <<"e", "d", "g", "e">> THEN import_edge(h, G, und, l.rest)
         ELSE GResult("ok", h, G, 0)

\* Graph::import(std::istream&): line k of the text and those after it; the
\* exception of a line ends the import
RECURSIVE import(_, _, _, _, _)
import(h, G, und, text, k) ==
    IF k > Len(text) THEN GResult("ok", h, G, 0)
    ELSE LET r == import_line(h, G, und, text[k]) IN
         IF r.st # "ok" THEN r
         ELSE import(r.h, r.G, und, text, k + 1)

(* ----- C21 ----- *)

\* array D, in heap h, holds the elements array S held in heap h0, in blocks
\* of its own, and S holds in h what it held in h0
CopyOf(h, D, h0, S) ==
    /\ size(D) = size(S)
    /\ \A i \in 0..(size(S) - 1) :
          /\ get_(D, i).st = "ok" /\ ValidAddress(h, get_(D, i).p)
          /\ Deref(h, get_(D, i).p) = Deref(h0, get_(S, i).p)
          /\ Deref(h, get_(S, i).p) = Deref(h0, get_(S, i).p)
    /\ \A k \in 1..Len(D.data), l \in 1..Len(S.data) : D.data[k] # S.data[l]

\* the copy with result r of array S completed, and in each of its outcomes
\* (it may have assigned to elements whose destructor had run) left a copy
CopyResult(r, S) ==
    /\ r.st = "ok"
    /\ \A reuse \in Reuses :
          ((reuse = "crash" => Misused(r.h)) /\ (reuse = "garbled" => Reused(r.h))) =>
              /\ reuse # "crash"
              /\ CopyOf(Settle(r.h, reuse), r.a, heap, S)

\* C21: stable container copy.  The copy construction of an array from an
\* array S, and the copy assignment of S to another array D, allocation
\* succeeding, give the destination the size of S and elements equal to those
\* of S one by one, in blocks none of which is a block of S, and leave S as
\* it was.  (The arrays are the node stores of the graphs of a program.)
StableCopy ==
    \A a \in Graphs, b \in Graphs :
        (a # b /\ graphs[b].alive) =>
            LET S == graphs[b].nodes IN
            IF graphs[a].alive
            THEN \A stores \in BOOLEAN :
                    CopyResult(ArrayCopyAssign(heap, graphs[a].nodes, S, stores, 0, 0), S)
            ELSE CopyResult(ArrayCopy(heap, S, NodeArena(a), 0, 0), S)

(* ----- C22 ----- *)

\* array D1 (in heap h1) owns the blocks and the size array S had (in heap
\* h), every element at the address it had, and S1, what S has become, is
\* empty
MovedTo(h1, D1, S1, h, S) ==
    /\ D1.data = S.data
    /\ size(D1) = size(S)
    /\ \A i \in 0..(size(S) - 1) :
          /\ get_(D1, i).st = "ok"
          /\ get_(D1, i).p = get_(S, i).p
          /\ Deref(h1, get_(D1, i).p) = Deref(h, get_(S, i).p)
    /\ size(S1) = 0

\* C22: stable container move.  After array S has been moved into array D,
\* by move construction or by move assignment, D owns the blocks and the size
\* S had, every element at the address it had before, and S has size 0.
StableMove ==
    [][/\ SecondMoveConstruct => MovedTo(heap', second', array', heap, array)
       /\ MoveToSecond => MovedTo(heap', second', array', heap, array)
       /\ MoveFromSecond => MovedTo(heap', array', second', heap, second)]_vars

(* ----- C23 ----- *)

\* graph I, in heap hi, shows the records and the adjacency graph G shows in
\* heap h: node ids and payloads, edge ids, payloads and endpoint ids, and
\* exists(s, t) for every pair
SameRecords(hi, I, h, G) ==
    /\ View(hi, I).nodes = View(h, G).nodes
    /\ View(hi, I).edges = View(h, G).edges
    /\ \A s \in AnyNodeIds, t \in AnyNodeIds :
          ExistsPair(I, s, t) = ExistsPair(G, s, t)

\* C23: export/import round trip.  The text Graph::print writes of a graph
\* (the node lines in id order, then the edge lines in id order, an edge line
\* carrying source id, edge id and target id), imported into a new, empty
\* graph of the same orientation, is read without error, and the new graph
\* has the node ids and payloads, the edge ids, endpoints and payloads and
\* the adjacency of the graph that was written.
ExportImportRoundTrip ==
    \A g \in Graphs :
        graphs[g].alive =>
            LET x == export(heap, graphs[g])
                r == import([b \in BlockIds |-> FreeBlock], EmptyGraph(1),
                            undirected, x.text, 1)
            IN
            /\ x.st = "ok"
            /\ r.st = "ok"
            /\ SameRecords(r.h, r.G, heap, graphs[g])

(* ----- C24 ----- *)

\* C24: self-assignment.  g = g, the copy assignment of a graph to itself,
\* leaves the graph as it was: the node count and the edge count, the id and
\* the payload of every node and edge, the source and target id of every
\* edge and every cell of the adjacency matrix, whatever the build makes of
\* the destructors' stores.
SelfAssignment ==
    \A g \in Graphs :
        graphs[g].alive =>
            \A stores \in BOOLEAN :
                LET G == graphs[g]
                    r == GraphCopyAssign(heap, G, G, undirected, stores, 0)
                IN
                /\ r.st = "ok"
                /\ \A reuse \in Reuses :
                      ((reuse = "crash" => Misused(r.h))
                       /\ (reuse = "garbled" => Reused(r.h))) =>
                          /\ reuse # "crash"
                          /\ View(Settle(r.h, reuse), r.G) = View(heap, G)

(* ----- C25 ----- *)

\* C25, as claimed: block allocation rule of append.  A push_back that
\* returns has allocated exactly one block when the size of the array was an
\* exact multiple of block_size (0 included) and none when it was not, after
\* any sequence of appends and removals.
BlockPerMultiple ==
    [][\A item \in Items, failAt \in EdgeFailAts :
          (ArrayPushBack(item, failAt) /\ ~crashed' /\ faults' = faults) =>
              Len(array'.data) =
                  IF size(array) % array.block_size = 0
                  THEN Len(array.data) + 1 ELSE Len(array.data)]_vars

\* C25, amended: a push_back that returns has allocated exactly one block,
\* one that was free and is now the last of the array, when the array had no
\* free slot (block count * block_size = size), and none when it had one; a
\* push_back that fails for want of memory was called on an array without a
\* free slot.
BlockPerFullArray ==
    [][\A item \in Items, failAt \in EdgeFailAts :
          (ArrayPushBack(item, failAt) /\ ~crashed') =>
              LET full == Len(array.data) * array.block_size = size(array) IN
              IF faults' = faults
              THEN /\ Len(array'.data) = Len(array.data) + (IF full THEN 1 ELSE 0)
                   /\ SubSeq(array'.data, 1, Len(array.data)) = array.data
                   /\ full => heap[array'.data[Len(array'.data)]].kind = "free"
                   /\ size(array') = size(array) + 1
              ELSE full /\ array' = array]_vars

\* an array of two blocks whose size is block_size after a removal: the next
\* push_back finds a free slot and allocates nothing
BlockPerFullArrayWitness ==
    /\ ~crashed
    /\ size(array) = array.block_size /\ Len(array.data) = 2
    /\ Destroyed(heap, <<array.data[2], 0>>)
    /\ LET r == push_back(heap, array, Node(0, "a"), 0, 0) IN
          r.st = "ok" /\ r.a.data = array.data /\ size(r.a) = size(array) + 1

(* ----- C26 ----- *)

EdgesRebound(h, G) ==
    \A i \in IdsOf(G.edges) :
        /\ Readable(h, G.edges, i)
        /\ LET e == Deref(h, get(G.edges, i).p) IN
              /\ NodeAddress(h, e.source) /\ OwnedBy(G.nodes, e.source)
              /\ NodeAddress(h, e.target) /\ OwnedBy(G.nodes, e.target)

\* both rebuild steps were made on G: its edges are rebound, and the matrix
\* cell of every edge holds the address of that edge
Rebuilt(h, G) ==
    /\ EdgesRebound(h, G)
    /\ \A i \in IdsOf(G.edges) :
          LET ends == EdgeEnds(h, G, i) IN
          GetPair(G, ends[1], ends[2]) = [st |-> "ok", p |-> get(G.edges, i).p]

\* the copy of graph G into graph object c (construction when c is not
\* alive, assignment when it is), as far as update_source_and_target_pointers:
\* the node store is copied, then the edge store, then the edges are rebound
CopiedAndRebound(c, G) ==
    LET C == graphs[c]
        rn == IF C.alive
              THEN ArrayCopyAssign(heap, C.nodes, G.nodes, FALSE, 0, 0)
              ELSE ArrayCopy(heap, G.nodes, NodeArena(c), 0, 0)
        re == IF C.alive
              THEN ArrayCopyAssign(rn.h, C.edges, G.edges, FALSE, rn.n, 0)
              ELSE ArrayCopy(rn.h, G.edges, EdgeArena(c), rn.n, 0)
        G1 == [alive |-> TRUE, nodes |-> rn.a, edges |-> re.a, matrix |-> <<>>]
        u == update_source_and_target_pointers(re.h, G1)
    IN [st |-> IF rn.st # "ok" THEN rn.st ELSE IF re.st # "ok" THEN re.st ELSE u.st,
        h |-> u.h, G |-> G1]

\* C27: copy rebuild protocol order.  In the copy construction and in the
\* copy assignment of a graph the node store is copied before the edge
\* store and update_source_and_target_pointers runs before
\* construct_adjacency_matrix, so that when the matrix is constructed both
\* references of every copied edge designate nodes of the new graph's node
\* store; and no public operation observes a graph between the two rebuild
\* steps: a graph a program holds whose edges are rebound has its matrix
\* constructed.
CopyRebuildOrder ==
    /\ \A c \in Graphs, g \in Graphs :
          (c # g /\ graphs[g].alive) =>
              LET u == CopiedAndRebound(c, graphs[g]) IN
              u.st = "ok" => EdgesRebound(u.h, u.G)
    /\ \A g \in Graphs :
          graphs[g].alive /\ EdgesRebound(heap, graphs[g]) => Rebuilt(heap, graphs[g])

(* ----- C28 ----- *)

\* the edges of G, in heap h, that cell (s, t) of the matrix is to reference:
\* those from s to t and, in an undirected graph, those from t to s
EdgesOfCell(h, G, und, s, t) ==
    {i \in IdsOf(G.edges) :
        \/ EdgeEnds(h, G, i) = <<s, t>>
        \/ und /\ EdgeEnds(h, G, i) = <<t, s>>}

\* the matrix of G, in heap h, is what one scan of the stored edges writes:
\* n rows of n cells for n nodes, a cell referencing an edge exactly when the
\* edge joins the cell's row and column, every other cell absent
Reconstructed(h, G, und) ==
    LET n == size(G.nodes) IN
    /\ Len(G.matrix) = n
    /\ \A s \in 0..(n - 1) :
          /\ Len(G.matrix[s + 1]) = n
          /\ \A t \in 0..(n - 1) :
                /\ \A i \in IdsOf(G.edges) :
                      G.matrix[s + 1][t + 1] = get(G.edges, i).p
                          <=> i \in EdgesOfCell(h, G, und, s, t)
                /\ EdgesOfCell(h, G, und, s, t) = {}
                      => G.matrix[s + 1][t + 1] = NULL

\* C28: matrix reconstruction equals incremental construction.  In the copy
\* of a graph with n nodes, whose matrix construct_adjacency_matrix builds,
\* the matrix has n rows of n cells, cell (s, t) references edge e exactly
\* when e has source id s and target id t or, in an undirected graph, source
\* id t and target id s, every other cell is absent, and every cell holds
\* the edge of the id that the cell holds in the copied graph, whose matrix
\* the adds built.
ReconstructionEqualsIncremental ==
    \A c \in Graphs, g \in Graphs :
        ~graphs[c].alive /\ graphs[g].alive =>
            LET r == GraphCopyConstruct(heap, c, graphs[g], undirected, 0) IN
            r.st = "ok" =>
                /\ Reconstructed(r.h, r.G, undirected)
                /\ \A s \in AnyNodeIds, t \in AnyNodeIds :
                      PairEdgeId(r.h, r.G, s, t) = PairEdgeId(heap, graphs[g], s, t)

\* an undirected graph 1 of three nodes and an edge, built by adds, and its
\* copy, graph 2, whose matrix references its own edge in both cells
ReconstructionEqualsIncrementalWitness ==
    /\ undirected /\ faults = 0
    /\ graphs[1].alive /\ graphs[2].alive
    /\ size(graphs[1].nodes) = MaxNodes /\ size(graphs[1].edges) = 1
    /\ CopiedFrom(heap, graphs[2], graphs[1])
    /\ Reconstructed(heap, graphs[2], undirected)
    /\ \E s \in AnyNodeIds, t \in AnyNodeIds :
          /\ s # t
          /\ PairEdgeId(heap, graphs[2], s, t) = 0
          /\ PairEdgeId(heap, graphs[2], t, s) = 0
          /\ PairEdgeId(heap, graphs[1], s, t) = 0
          /\ GetPair(graphs[2], s, t).p = get(graphs[2].edges, 0).p
          /\ GetPair(graphs[2], s, t).p # GetPair(graphs[1], s, t).p

(* ----- C29 ----- *)

\* matrix m has n rows of n cells
Square(m, n) == Len(m) = n /\ \A i \in 1..n : Len(m[i]) = n

\* matrix grown is matrix m with one more row and one more column, both
\* absent throughout, around the cells of m
GrownFrom(grown, m, n) ==
    /\ Square(grown, n + 1)
    /\ \A i \in 1..(n + 1), k \in 1..(n + 1) :
          grown[i][k] = IF i <= n /\ k <= n THEN m[i][k] ELSE NULL

\* C29: matrix growth is atomic and frame-preserving.  On a matrix of n rows
\* of n cells a grow_adjacency_matrix that succeeds yields n + 1 rows of
\* n + 1 cells, the new row and the new column absent throughout and the
\* n x n cells it had unchanged; one that fails, whichever of its
\* allocations fails and however many rows were extended by then, throws
\* UnavailableMemory and leaves the matrix with n rows of n cells and the
\* cells it had.
AtomicGrowth ==
    \A g \in Graphs :
        LET m == graphs[g].matrix
            n == Len(m)
        IN
        graphs[g].alive /\ Square(m, n) =>
            \A failAt \in 0..(n + 2) :
                LET r == grow_adjacency_matrix(m, 0, failAt) IN
                IF failAt = 0
                THEN r.st = "ok" /\ GrownFrom(r.m, m, n)
                ELSE r.st = "UnavailableMemory" /\ r.m = m

\* a graph of three nodes and an edge in a program that met an allocation
\* failure: the matrix has three rows of three cells and references the
\* edge, and a growth that fails after extending two rows leaves it so
AtomicGrowthWitness ==
    \E g \in Graphs :
        LET m == graphs[g].matrix IN
        /\ graphs[g].alive /\ faults = 1
        /\ size(graphs[g].nodes) = MaxNodes /\ Square(m, MaxNodes)
        /\ m[1][2] # NULL
        /\ grow_adjacency_matrix(m, 0, 3).st = "UnavailableMemory"
        /\ grow_adjacency_matrix(m, 0, 3).m = m

(* ----- C30 ----- *)

\* the node records and the edge records of graph G in heap h: ids and
\* payloads, and per edge the ids of its endpoints
Records(h, G) == [nodes |-> View(h, G).nodes, edges |-> View(h, G).edges]

\* matrix m2 is matrix m with the cells in set cells holding p
Occupies(m2, m, cells, p) ==
    /\ Len(m2) = Len(m)
    /\ \A i \in 1..Len(m) :
          /\ Len(m2[i]) = Len(m[i])
          /\ \A k \in 1..Len(m[i]) :
                m2[i][k] = IF <<i - 1, k - 1>> \in cells THEN p ELSE m[i][k]

\* the add (id, s, t) with result r on the directed graph G: cell (s, t)
\* alone is occupied, exists(t, s) answers as before, and where it answers
\* no, the add (t, s) that follows is accepted and appends another record
DirectedAdd(G, r, id, s, t) ==
    LET p == get(r.G.edges, id).p
        later == EdgesAdd(r.h, r.G, id + 1, t, s, "x", FALSE, "crash", 0)
    IN
    /\ size(r.G.edges) = id + 1
    /\ Occupies(r.G.matrix, G.matrix, {<<s, t>>}, p)
    /\ ExistsPair(r.G, t, s) = ExistsPair(G, t, s)
    /\ ~ExistsPair(G, t, s).v =>
          /\ later.st = "ok"
          /\ size(later.G.edges) = id + 2
          /\ get(later.G.edges, id + 1).p # p
          /\ GetPair(later.G, t, s).p = get(later.G.edges, id + 1).p
          /\ GetPair(later.G, s, t).p = p
          /\ EdgeEnds(later.h, later.G, id) = <<s, t>>
          /\ EdgeEnds(later.h, later.G, id + 1) = <<t, s>>

\* the same add on the undirected graph G: one record, in both cells
UndirectedAdd(G, r, id, s, t) ==
    /\ size(r.G.edges) = id + 1
    /\ Occupies(r.G.matrix, G.matrix, {<<s, t>>, <<t, s>>}, get(r.G.edges, id).p)

\* C30: orientation affects only mirroring.  An edge add (s, t), s # t, that
\* a directed graph accepts occupies cell (s, t) only and leaves exists(t, s)
\* as it was, and an add (t, s) after it is accepted as a distinct edge
\* record; the same add accepted by an undirected graph occupies both cells
\* with one record; and as long as no add is rejected the two variants hold
\* identical node records and edge records (ids, endpoints, payloads): an
\* add that both accept on identical records leaves identical records.
OrientationOnlyMirrors ==
    LET d == IF is_undirected(1) THEN 2 ELSE 1
        u == IF is_undirected(1) THEN 1 ELSE 2
        D == graphs[d]
        U == graphs[u]
    IN
    graphs[1].alive /\ graphs[2].alive =>
        /\ \A id \in EdgeIds, pair \in VariantPairs :
              LET rd == EdgesAdd(heap, D, id, pair[1], pair[2], "x", FALSE,
                                 "crash", 0)
                  ru == EdgesAdd(heap, U, id, pair[1], pair[2], "x", TRUE,
                                 "crash", 0)
              IN
              /\ rd.st = "ok" /\ pair[1] # pair[2] =>
                    DirectedAdd(D, rd, id, pair[1], pair[2])
              /\ ru.st = "ok" /\ pair[1] # pair[2] =>
                    UndirectedAdd(U, ru, id, pair[1], pair[2])
              /\ rd.st = "ok" /\ ru.st = "ok"
                    /\ Records(heap, D) = Records(heap, U) =>
                        Records(rd.h, rd.G) = Records(ru.h, ru.G)
        /\ \A id \in Ids :
              LET rd == NodesAdd(heap, D, id, "a", FALSE, 0)
                  ru == NodesAdd(heap, U, id, "a", FALSE, 0)
              IN
              rd.st = "ok" /\ ru.st = "ok" /\ Records(heap, D) = Records(heap, U) =>
                  Records(rd.h, rd.G) = Records(ru.h, ru.G)

\* after the adds (0, 1) and (1, 0) on both graphs: the directed graph holds
\* two records, one per cell, the undirected graph the first record alone,
\* in both cells
OrientationOnlyMirrorsWitness ==
    LET d == IF is_undirected(1) THEN 2 ELSE 1
        u == IF is_undirected(1) THEN 1 ELSE 2
    IN
    /\ graphs[1].alive /\ graphs[2].alive
    /\ size(graphs[d].nodes) = 2 /\ size(graphs[u].nodes) = 2
    /\ size(graphs[d].edges) = 2 /\ size(graphs[u].edges) = 1
    /\ PairEdgeId(heap, graphs[d], 0, 1) = 0
    /\ PairEdgeId(heap, graphs[d], 1, 0) = 1
    /\ PairEdgeId(heap, graphs[u], 0, 1) = 0
    /\ PairEdgeId(heap, graphs[u], 1, 0) = 0

(* ----- C31 ----- *)

\* the matrix and the edge store of G, in heap h, agree: an occupied cell
\* (s, t) holds the address of a stored edge of G that joins s and t (t and
\* s too when und), and every stored edge is in the cell of its endpoints
Consistent(h, G, und) ==
    /\ \A s \in 0..(Len(G.matrix) - 1) :
          \A t \in 0..(Len(G.matrix[s + 1]) - 1) :
              G.matrix[s + 1][t + 1] # NULL =>
                  \E i \in IdsOf(G.edges) :
                      /\ Readable(h, G.edges, i)
                      /\ G.matrix[s + 1][t + 1] = get(G.edges, i).p
                      /\ IdAt(h, G.edges, i) = i
                      /\ \/ EdgeEnds(h, G, i) = <<s, t>>
                         \/ und /\ EdgeEnds(h, G, i) = <<t, s>>
    /\ \A i \in IdsOf(G.edges) :
          /\ Readable(h, G.edges, i)
          /\ LET ends == EdgeEnds(h, G, i) IN
             GetPair(G, ends[1], ends[2]) = [st |-> "ok", p |-> get(G.edges, i).p]

\* C31: matrix/edge consistency.  In every state reached by node adds, edge
\* adds (accepted, rejected or failing), copies of one graph into another
\* and moves, every occupied cell (s, t) of a graph references a record of
\* that graph's own edge store, of an id below the edge count, whose
\* endpoints are (s, t), or (t, s) in an undirected graph, and every stored
\* edge with endpoints (s, t) is the record cell (s, t) references.
MatrixEdgeConsistency ==
    \A g \in Graphs : graphs[g].alive => Consistent(heap, graphs[g], undirected)

(* ----- C32 ----- *)

\* graph A, in heap h, is what the copy assignment of graph B, as it was in
\* heap h0, is to leave: B's records with A's own nodes behind the edges, a
\* matrix of B's shape holding in each cell the edge id B's matrix holds
\* there and no edge that A does not store, and B as it was
AssignedFrom(h, A, h0, B, und) ==
    /\ CopiedFrom(h, A, B)
    /\ Records(h, A) = Records(h0, B)
    /\ Square(A.matrix, size(B.nodes))
    /\ \A s \in AnyNodeIds, t \in AnyNodeIds :
          PairEdgeId(h, A, s, t) = PairEdgeId(h0, B, s, t)
    /\ Consistent(h, A, und)
    /\ View(h, B) = View(h0, B)

\* C32: copy assignment onto a populated graph.  A = B, for two different
\* graphs of which A already holds nodes and edges, more or fewer than B,
\* leaves A with exactly B's nodes and edges (ids, payloads, endpoint ids),
\* a matrix of B's n rows of n cells equal to B's cell by cell by edge id,
\* every edge of A referring to nodes of A's own node store, no cell
\* referring to an edge A held before, and B unchanged.
PopulatedCopyAssign ==
    \A a \in Graphs, b \in Graphs :
        a # b /\ graphs[a].alive /\ graphs[b].alive =>
            \A stores \in BOOLEAN :
                LET r == GraphCopyAssign(heap, graphs[a], graphs[b], undirected,
                                         stores, 0)
                IN
                /\ r.st = "ok"
                /\ \A reuse \in Reuses :
                      ((reuse = "crash" => Misused(r.h))
                       /\ (reuse = "garbled" => Reused(r.h))) =>
                          /\ reuse # "crash"
                          /\ AssignedFrom(Settle(r.h, reuse), r.G, heap,
                                          graphs[b], undirected)

(* ----- C33 ----- *)

\* C33: owner back-reference.  After any copy or move of a graph, by
\* construction or by assignment, as after every other operation, the node
\* store and the edge store of each graph have a back-reference that
\* designates the graph that holds them: the records and the matrix pass
\* from graph to graph, the back-references never do, so that the matrix a
\* node add grows and the node count and orientation an edge add consults
\* are those of the graph the add is made on.
OwnerBackReference ==
    \A g \in Graphs :
        graphs[g].alive => graph_[g].nodes = g /\ graph_[g].edges = g

\* two graphs of two nodes and an edge, the second a copy of the first, each
\* with stores that designate it
OwnerBackReferenceWitness ==
    /\ graphs[1].alive /\ graphs[2].alive /\ faults = 0
    /\ size(graphs[1].edges) = 1
    /\ size(graphs[2].nodes) = 2 /\ size(graphs[1].nodes) = 2
    /\ size(graphs[2].edges) = 1
    /\ graph_[1] = ConstructedBy(1) /\ graph_[2] = ConstructedBy(2)
    /\ CopiedFrom(heap, graphs[2], graphs[1])

(* ----- C34 ----- *)

\* C34: a moved-from array is reusable.  After Array D(std::move(S)) the
\* array S has size 0 and an append to S succeeds, after which S has size 1
\* and S[0] is the appended item.
MovedFromReusable ==
    second.kind = "none" /\ ~crashed =>
        \A item \in Items :
            LET m == ArrayMove(array, Partner(array))
                r == push_back(heap, m.S, item, 0, 0)
            IN
            /\ size(m.S) = 0
            /\ r.st = "ok"
            /\ size(r.a) = 1
            /\ get_(r.a, 0).st = "ok"
            /\ Deref(r.h, get_(r.a, 0).p) = item

(* ----- C35 ----- *)

\* the cells of the matrix of G that hold an edge
OccupiedCells(G) ==
    {c \in (0..(Len(G.matrix) - 1)) \X (0..(Len(G.matrix) - 1)) :
        InMatrix(G.matrix, c[1], c[2]) /\ G.matrix[c[1] + 1][c[2] + 1] # NULL}

\* the stored edges of G, in heap h, that join a node with itself
SelfLoops(h, G) ==
    {i \in IdsOf(G.edges) : EdgeEnds(h, G, i)[1] = EdgeEnds(h, G, i)[2]}

\* C35: occupied-cell count.  In every state reached by node adds and edge
\* adds, accepted, rejected or failing, the number of occupied matrix cells
\* is the edge count m in a directed graph and 2 * m less the number of
\* self-loop edges in an undirected graph, where the add (s, s) is accepted
\* and occupies the one cell (s, s).
OccupiedCellCount ==
    LET G == graphs[1]
        m == size(G.edges)
    IN
    G.alive =>
        /\ Cardinality(OccupiedCells(G)) =
              IF undirected THEN 2 * m - Cardinality(SelfLoops(heap, G)) ELSE m
        /\ undirected =>
              \A id \in EdgeIds, t \in AnyNodeIds :
                  LET r == EdgesAdd(heap, G, id, t, t, "x", TRUE, "crash", 0) IN
                  (id = m /\ t < size(G.nodes) /\ ~ExistsPair(G, t, t).v) =>
                      /\ r.st = "ok"
                      /\ OccupiedCells(r.G) = OccupiedCells(G) \cup {<<t, t>>}

\* an undirected graph of three nodes, after an add that failed, with a
\* self-loop and an edge between two nodes: three occupied cells
OccupiedCellCountWitness ==
    LET G == graphs[1] IN
    /\ G.alive /\ undirected /\ faults = 1
    /\ size(G.nodes) = MaxNodes /\ size(G.edges) = 2
    /\ Cardinality(SelfLoops(heap, G)) = 1
    /\ Cardinality(OccupiedCells(G)) = 3

====
